---------------------------- MODULE Spec2Model ----------------------------
(***************************************************************************)
(* Resource correlation and filtering engine of the coolify-ops extension. *)
(*                                                                         *)
(* JavaScript values are modelled as tagged records [t, n, s]: t is the    *)
(* typeof tag, n the payload of a number, s the payload of a string.  A    *)
(* string is the sequence of its characters, so that trimming, prefix      *)
(* tests and concatenation are computed and not assumed.                   *)
(***************************************************************************)
EXTENDS Integers, Sequences, FiniteSets, TLC

VARIABLES
    idArg,              \* toId: the argument of the last call
    idRet,              \* toId: the value the last call returned
    projects,           \* Project[] with nested environments, as fetched
    environments,       \* ProjectEnvironment[], the flattened join
    envToProjectMap,    \* Map<string, string>: env id | uuid -> project id
    envNameMap,         \* Map<string, string>: env id | uuid -> display name
    envLookup,          \* Map<string, ProjectEnvironment>
    envNameToIds,       \* Map<string, Set<string>>: display name -> ids
    response,           \* the deserialized body of a list request
    normalized,         \* normalizeList(response) in the deployments view
    normalizedApp,      \* the same in the application deployments list
    applications,       \* Application[] of GET /applications
    services,           \* Service[] of GET /services
    databases,          \* Database[] of GET /databases
    deployments,        \* Deployment[] of the deployments view
    filterValue,        \* the selector chosen in the dropdown
    resources,          \* ResourceItem[]: buildResources of the three lists
    withFilterResources,     \* applyFilter of the unified resources view
    withFilterApplications,  \* applyFilter of the applications view
    withFilterServices,      \* applyFilter of the services view
    withFilterDatabases,     \* applyFilter of the databases view
    withFilterDeployments,   \* applyFilter of the deployments view
    searchText,              \* the text of the search bar
    statusArg,          \* status:active: the status of the deployment filtered
    statusRet,          \* normalizeStatus of it
    statusActive,       \* what applyFilter kept of the one deployment
    urlArgs,            \* the arguments handed to the URL resolvers
    urlRets,            \* what each URL resolver returned for them
    fqdnArg,            \* the fqdn of the application handed to getPrimaryUrl
    primaryUrls,        \* what each copy of getPrimaryUrl returned for it
    fetchUuids,         \* deployments fetch: appUuids of the running call
    fetchPc,            \* where the call of the async function stands
    fetchIndex,         \* the loop variable i, counted from 1
    fetchAll,           \* the local array `all`
    inFlight,           \* the requests sent and not yet settled
    requestLog,         \* the uuids of the sub-requests sent by the call
    responseLog,        \* the uuids whose sub-request was answered
    fetchedDeployments, \* data of useCachedPromise: the last resolved value
    fanProjects,        \* fetchProjectEnvironments: the projects of the call
    fanPending,         \* the projects whose request is not yet settled
    fanFailed,          \* the projects whose request was rejected
    fanStatus,          \* the promise fetchProjectEnvironments returned
    fanEnvironments,    \* data of useCachedPromise: `environments ?? []`
    gatePrefs,          \* WithValidToken: the preferences apiUrl, apiToken
    gatePc,             \* where the call of isValidToken stands
    gateLoading,        \* isLoading of usePromise
    gateError,          \* error of usePromise
    gateRequests,       \* the HTTP requests isValidToken issued
    gateView,           \* what WithValidToken rendered last
    formProps,          \* the mutation form that is open, and its props
    formPayload,        \* values.payload of the bulk form
    formPc,             \* where the onSubmit handler stands
    isSubmitting,       \* the isSubmitting state of the form
    formRequests,       \* the API requests the form sent
    formAttempts,       \* how often the form was submitted
    requestSucceeded,   \* an API request of the form succeeded
    refreshed,          \* the parent callback (onDeleted, onSaved, onAdded) ran
    popped              \* pop() was called

idVars == <<idArg, idRet>>
envVars == <<projects, environments, envToProjectMap, envNameMap, envLookup,
             envNameToIds>>
listVars == <<response, normalized, normalizedApp>>
filterVars == <<applications, services, databases, deployments, filterValue,
                resources, withFilterResources, withFilterApplications,
                withFilterServices, withFilterDatabases, withFilterDeployments,
                searchText>>
statusVars == <<statusArg, statusRet, statusActive>>
urlVars == <<urlArgs, urlRets>>
primaryVars == <<fqdnArg, primaryUrls>>
fetchVars == <<fetchUuids, fetchPc, fetchIndex, fetchAll, inFlight,
               requestLog, responseLog, fetchedDeployments>>
fanVars == <<fanProjects, fanPending, fanFailed, fanStatus, fanEnvironments>>
gateVars == <<gatePrefs, gatePc, gateLoading, gateError, gateRequests,
              gateView>>
formVars == <<formProps, formPayload, formPc, isSubmitting, formRequests,
              formAttempts, requestSucceeded, refreshed, popped>>
processVars == <<fetchVars, fanVars, gateVars, formVars>>
callVars == <<statusVars, urlVars, primaryVars, processVars>>
vars == <<idVars, envVars, listVars, filterVars, callVars>>

-----------------------------------------------------------------------------
(* JavaScript values *)

Undefined == [t |-> "undefined", n |-> 0, s |-> <<>>]
Null      == [t |-> "null",      n |-> 0, s |-> <<>>]
Num(k)    == [t |-> "number",    n |-> k, s |-> <<>>]
Str(x)    == [t |-> "string",    n |-> 0, s |-> x]

Bool(b)   == [t |-> "boolean",   n |-> IF b THEN 1 ELSE 0, s |-> <<>>]
\* an array of opaque rows
Arr(xs)   == [t |-> "array",     n |-> 0, s |-> xs]
\* a response object: the three properties the code reads; a property the
\* object does not have is Undefined
Obj(rowsValue, dataValue, deploymentsValue) ==
    [t |-> "object", rows |-> rowsValue, data |-> dataValue,
     deployments |-> deploymentsValue]

\* a ?? b
Nullish(v) == v.t \in {"undefined", "null"}
Coalesce(a, b) == IF Nullish(a) THEN b ELSE a

\* the truthiness test of `if (v)`, `v ? a : b`, `!v`
Truthy(v) ==
    CASE v.t = "number" -> v.n # 0
      [] v.t = "string" -> v.s # <<>>
      [] v.t = "boolean" -> v.n = 1
      [] v.t \in {"array", "object"} -> TRUE
      [] OTHER -> FALSE

\* typeof v
TypeOf(v) == IF v.t \in {"array", "null"} THEN "object" ELSE v.t

\* Array.isArray(v)
IsArray(v) == v.t = "array"

Digits == <<"0", "1", "2", "3", "4", "5", "6", "7", "8", "9">>

RECURSIVE NatToString(_)
NatToString(k) ==
    IF k < 10 THEN <<Digits[k + 1]>>
    ELSE NatToString(k \div 10) \o <<Digits[(k % 10) + 1]>>

\* String(v)
String(v) ==
    CASE v.t = "number" -> NatToString(v.n)
      [] v.t = "string" -> v.s
      [] v.t = "null" -> <<"n", "u", "l", "l">>
      [] OTHER -> <<"u", "n", "d", "e", "f", "i", "n", "e", "d">>

WhiteSpace == {" ", "\t", "\n"}

RECURSIVE TrimStart(_)
TrimStart(x) ==
    IF x # <<>> /\ Head(x) \in WhiteSpace THEN TrimStart(Tail(x)) ELSE x

RECURSIVE TrimEnd(_)
TrimEnd(x) ==
    IF x # <<>> /\ x[Len(x)] \in WhiteSpace
    THEN TrimEnd(SubSeq(x, 1, Len(x) - 1))
    ELSE x

\* String.prototype.trim
Trim(x) == TrimEnd(TrimStart(x))

\* String.prototype.startsWith
StartsWith(x, prefix) ==
    Len(x) >= Len(prefix) /\ SubSeq(x, 1, Len(prefix)) = prefix

\* String.prototype.indexOf, counted from 1; 0 when the pattern is absent
IndexOf(x, pattern) ==
    LET at == {i \in 1..(Len(x) - Len(pattern) + 1) :
                  SubSeq(x, i, i + Len(pattern) - 1) = pattern}
    IN  IF at = {} THEN 0 ELSE CHOOSE i \in at : \A j \in at : i <= j

\* String.prototype.replace with a string pattern: the first occurrence only
Replace(x, pattern, by) ==
    LET i == IndexOf(x, pattern)
    IN  IF i = 0 THEN x
        ELSE SubSeq(x, 1, i - 1) \o by \o SubSeq(x, i + Len(pattern), Len(x))

UpperCaseLetters ==
    <<"A", "B", "C", "D", "E", "F", "G", "H", "I", "J", "K", "L", "M", "N",
      "O", "P", "Q", "R", "S", "T", "U", "V", "W", "X", "Y", "Z">>
LowerCaseLetters ==
    <<"a", "b", "c", "d", "e", "f", "g", "h", "i", "j", "k", "l", "m", "n",
      "o", "p", "q", "r", "s", "t", "u", "v", "w", "x", "y", "z">>

\* String.prototype.toLowerCase
ToLowerCase(x) ==
    [i \in 1..Len(x) |->
        IF \E k \in 1..Len(UpperCaseLetters) : UpperCaseLetters[k] = x[i]
        THEN LowerCaseLetters[CHOOSE k \in 1..Len(UpperCaseLetters) :
                                  UpperCaseLetters[k] = x[i]]
        ELSE x[i]]

RECURSIVE SkipRun(_, _)
SkipRun(x, class) ==
    IF x # <<>> /\ Head(x) \in class THEN SkipRun(Tail(x), class) ELSE x

\* x.replace(/c+/g, by) for a character class c: every maximal run is replaced
RECURSIVE ReplaceRuns(_, _, _)
ReplaceRuns(x, class, by) ==
    IF x = <<>> THEN <<>>
    ELSE IF Head(x) \in class
         THEN by \o ReplaceRuns(SkipRun(Tail(x), class), class, by)
         ELSE <<Head(x)>> \o ReplaceRuns(Tail(x), class, by)

\* values.filter(Boolean).join(separator)
RECURSIVE JoinTruthy(_, _)
JoinTruthy(values, separator) ==
    IF values = <<>> THEN <<>>
    ELSE LET rest == JoinTruthy(Tail(values), separator)
             rests == SelectSeq(Tail(values), Truthy)
         IN  IF ~Truthy(Head(values)) THEN rest
             ELSE IF rests = <<>> THEN String(Head(values))
             ELSE String(Head(values)) \o separator \o rest

-----------------------------------------------------------------------------
(* api/filters: the identifier normalizer *)

toId_NoTrim(value) ==
    IF Nullish(value) THEN Null
    ELSE LET text == String(value)
         IN  IF Len(text) > 0 THEN Str(text) ELSE Null

toId(value) ==
    IF Nullish(value) THEN Null
    ELSE LET text == Trim(String(value))
         IN  IF Len(text) > 0 THEN Str(text) ELSE Null

-----------------------------------------------------------------------------
(* api/filters: environments and the four lookup-map builders *)

UnnamedProject ==
    <<"U", "n", "n", "a", "m", "e", "d", " ", "P", "r", "o", "j", "e", "c", "t">>
UnnamedEnvironment ==
    <<"U", "n", "n", "a", "m", "e", "d", " ",
      "E", "n", "v", "i", "r", "o", "n", "m", "e", "n", "t">>

\* Environment and ProjectEnvironment share one record shape; a field the
\* object does not carry is Undefined.
Environment(id, uuid, name, project_id, project_uuid) ==
    [id |-> id, uuid |-> uuid, name |-> name,
     project_id |-> project_id, project_uuid |-> project_uuid,
     projectId |-> Undefined, projectName |-> Undefined,
     projectUuid |-> Undefined]

\* Project; an absent `environments` is the empty sequence (`?? []`)
Project(id, uuid, name, envs) ==
    [id |-> id, uuid |-> uuid, name |-> name, environments |-> envs]

flattenProject_NameAsIs(project) ==
    LET projectId == toId(Coalesce(project.id, project.uuid))
        projectUuid == IF Truthy(project.uuid)
                       THEN Str(String(project.uuid)) ELSE Undefined
        projectName == project.name
    IN  [j \in 1..Len(project.environments) |->
            LET environment == project.environments[j]
                own == toId(Coalesce(environment.project_id,
                                     environment.project_uuid))
            IN  [environment EXCEPT
                    !.projectId = Coalesce(Coalesce(projectId, own), Undefined),
                    !.projectName = projectName,
                    !.projectUuid = projectUuid]]

flattenProject_OwnFieldsFirst(project) ==
    LET projectId == toId(Coalesce(project.id, project.uuid))
        projectUuid == IF Truthy(project.uuid)
                       THEN Str(String(project.uuid)) ELSE Undefined
        projectName == Coalesce(project.name, Str(UnnamedProject))
    IN  [j \in 1..Len(project.environments) |->
            LET environment == project.environments[j]
                own == toId(Coalesce(environment.project_id,
                                     environment.project_uuid))
            IN  [environment EXCEPT
                    !.projectId = Coalesce(Coalesce(own, projectId), Undefined),
                    !.projectName = projectName,
                    !.projectUuid = projectUuid]]

\* the body of the outer loop of flattenEnvironments: the items one project
\* contributes
flattenProject(project) ==
    LET projectId == toId(Coalesce(project.id, project.uuid))
        projectUuid == IF Truthy(project.uuid)
                       THEN Str(String(project.uuid)) ELSE Undefined
        projectName == Coalesce(project.name, Str(UnnamedProject))
    IN  [j \in 1..Len(project.environments) |->
            LET environment == project.environments[j]
                own == toId(Coalesce(environment.project_id,
                                     environment.project_uuid))
            IN  [environment EXCEPT
                    !.projectId = Coalesce(Coalesce(projectId, own), Undefined),
                    !.projectName = projectName,
                    !.projectUuid = projectUuid]]

RECURSIVE flattenEnvironments(_)
flattenEnvironments(ps) ==
    IF ps = <<>> THEN <<>>
    ELSE flattenProject(Head(ps)) \o flattenEnvironments(Tail(ps))

\* Map<K, V> as a function; the insertion order of a Map is not modelled
EmptyMap == [k \in {} |-> <<>>]
MapHas(map, k) == k \in DOMAIN map
MapSet(map, k, v) ==
    [x \in (DOMAIN map) \cup {k} |-> IF x = k THEN v ELSE map[x]]

\* `if (key) map.set(key, v)` for a key returned by toId
SetIfKey(map, key, v) == IF Truthy(key) THEN MapSet(map, key.s, v) ELSE map

Front(xs) == SubSeq(xs, 1, Len(xs) - 1)
Last(xs) == xs[Len(xs)]

\* one iteration of the loop of buildEnvToProjectMap
EnvToProjectStep(map, env) ==
    LET projectId == toId(Coalesce(Coalesce(env.projectId, env.project_uuid),
                                   env.project_id))
        envId == toId(env.id)
        envUuid == toId(env.uuid)
    IN  IF ~Truthy(projectId) THEN map
        ELSE SetIfKey(SetIfKey(map, envId, projectId.s), envUuid, projectId.s)

RECURSIVE buildEnvToProjectMap(_)
buildEnvToProjectMap(envs) ==
    IF envs = <<>> THEN EmptyMap
    ELSE EnvToProjectStep(buildEnvToProjectMap(Front(envs)), Last(envs))

EnvNameStep_KeepFirst(map, env) ==
    LET name == Coalesce(env.name, Str(UnnamedEnvironment)).s
        envId == toId(env.id)
        envUuid == toId(env.uuid)
        first == IF Truthy(envId) /\ ~MapHas(map, envId.s)
                 THEN MapSet(map, envId.s, name) ELSE map
    IN  IF Truthy(envUuid) /\ ~MapHas(first, envUuid.s)
        THEN MapSet(first, envUuid.s, name) ELSE first

\* one iteration of the loop of buildEnvNameMap
EnvNameStep(map, env) ==
    LET name == Coalesce(env.name, Str(UnnamedEnvironment)).s
        envId == toId(env.id)
        envUuid == toId(env.uuid)
    IN  SetIfKey(SetIfKey(map, envId, name), envUuid, name)

RECURSIVE buildEnvNameMap(_)
buildEnvNameMap(envs) ==
    IF envs = <<>> THEN EmptyMap
    ELSE EnvNameStep(buildEnvNameMap(Front(envs)), Last(envs))

EnvLookupStep_IdOnly(map, env) ==
    LET envId == toId(env.id)
        envUuid == toId(env.uuid)
    IN  IF Truthy(envId) THEN MapSet(map, envId.s, env)
        ELSE SetIfKey(map, envUuid, env)

\* one iteration of the loop of buildEnvLookup
EnvLookupStep(map, env) ==
    LET envId == toId(env.id)
        envUuid == toId(env.uuid)
    IN  SetIfKey(SetIfKey(map, envId, env), envUuid, env)

RECURSIVE buildEnvLookup(_)
buildEnvLookup(envs) ==
    IF envs = <<>> THEN EmptyMap
    ELSE EnvLookupStep(buildEnvLookup(Front(envs)), Last(envs))

EnvNameToIdsStep_Overwrite(map, env) ==
    LET name == Coalesce(env.name, Str(UnnamedEnvironment)).s
        envId == toId(env.id)
        envUuid == toId(env.uuid)
        set == (IF Truthy(envId) THEN {envId.s} ELSE {})
                   \cup (IF Truthy(envUuid) THEN {envUuid.s} ELSE {})
    IN  IF Cardinality(set) = 0 THEN map ELSE MapSet(map, name, set)

EnvNameToIdsStep_NoSkip(map, env) ==
    LET name == Coalesce(env.name, Str(UnnamedEnvironment)).s
        old == IF MapHas(map, name) THEN map[name] ELSE {}
        envId == toId(env.id)
        envUuid == toId(env.uuid)
        set == old \cup (IF Truthy(envId) THEN {envId.s} ELSE {})
                   \cup (IF Truthy(envUuid) THEN {envUuid.s} ELSE {})
    IN  MapSet(map, name, set)

\* one iteration of the loop of buildEnvNameToIdsMap
EnvNameToIdsStep(map, env) ==
    LET name == Coalesce(env.name, Str(UnnamedEnvironment)).s
        old == IF MapHas(map, name) THEN map[name] ELSE {}
        envId == toId(env.id)
        envUuid == toId(env.uuid)
        set == old \cup (IF Truthy(envId) THEN {envId.s} ELSE {})
                   \cup (IF Truthy(envUuid) THEN {envUuid.s} ELSE {})
    IN  IF Cardinality(set) = 0 THEN map ELSE MapSet(map, name, set)

RECURSIVE buildEnvNameToIdsMap(_)
buildEnvNameToIdsMap(envs) ==
    IF envs = <<>> THEN EmptyMap
    ELSE EnvNameToIdsStep(buildEnvNameToIdsMap(Front(envs)), Last(envs))

-----------------------------------------------------------------------------
(* deployments view and application deployments list: normalizeList *)

normalizeList_DataFirst(resp) ==
    IF IsArray(resp) THEN resp.s
    ELSE IF ~Truthy(resp) \/ TypeOf(resp) # "object" THEN <<>>
    ELSE LET record == resp
         IN  IF IsArray(record.data) THEN record.data.s
             ELSE IF IsArray(record.rows) THEN record.rows.s
             ELSE IF IsArray(record.deployments) THEN record.deployments.s
             ELSE IF Truthy(record.data) /\ TypeOf(record.data) = "object"
             THEN LET nested == record.data
                  IN  IF IsArray(nested.rows) THEN nested.rows.s
                      ELSE IF IsArray(nested.data) THEN nested.data.s
                      ELSE <<>>
             ELSE <<>>

\* normalizeList of the deployments view
normalizeList(resp) ==
    IF IsArray(resp) THEN resp.s
    ELSE IF ~Truthy(resp) \/ TypeOf(resp) # "object" THEN <<>>
    ELSE LET record == resp
         IN  IF IsArray(record.rows) THEN record.rows.s
             ELSE IF IsArray(record.data) THEN record.data.s
             ELSE IF IsArray(record.deployments) THEN record.deployments.s
             ELSE IF Truthy(record.data) /\ TypeOf(record.data) = "object"
             THEN LET nested == record.data
                  IN  IF IsArray(nested.rows) THEN nested.rows.s
                      ELSE IF IsArray(nested.data) THEN nested.data.s
                      ELSE <<>>
             ELSE <<>>

\* normalizeList of the application deployments list (a second copy)
normalizeList_ApplicationDeployments(resp) ==
    IF IsArray(resp) THEN resp.s
    ELSE IF ~Truthy(resp) \/ TypeOf(resp) # "object" THEN <<>>
    ELSE LET record == resp
         IN  IF IsArray(record.rows) THEN record.rows.s
             ELSE IF IsArray(record.data) THEN record.data.s
             ELSE IF IsArray(record.deployments) THEN record.deployments.s
             ELSE IF Truthy(record.data) /\ TypeOf(record.data) = "object"
             THEN LET nested == record.data
                  IN  IF IsArray(nested.rows) THEN nested.rows.s
                      ELSE IF IsArray(nested.data) THEN nested.data.s
                      ELSE <<>>
             ELSE <<>>

-----------------------------------------------------------------------------
(* api/client: fetchProjectEnvironments.  project.environments stands for  *)
(* the body of GET /projects/{uuid}/environments.                          *)

ProjectRequest_UuidAsProjectId(project) ==
    LET projectUuid == Coalesce(project.uuid, Str(<<>>))
    IN  IF ~Truthy(projectUuid) THEN <<>>
        ELSE [j \in 1..Len(project.environments) |->
                [project.environments[j] EXCEPT
                    !.projectId = project.uuid,
                    !.projectName = Coalesce(project.name, Str(UnnamedProject)),
                    !.projectUuid = Coalesce(project.uuid, Undefined)]]

\* what the request of one project resolves to; a project without a uuid
\* issues no request
ProjectRequest(project) ==
    LET projectUuid == Coalesce(project.uuid, Str(<<>>))
    IN  IF ~Truthy(projectUuid) THEN <<>>
        ELSE [j \in 1..Len(project.environments) |->
                [project.environments[j] EXCEPT
                    !.projectId = IF Truthy(project.id)
                                  THEN Str(String(project.id))
                                  ELSE project.uuid,
                    !.projectName = Coalesce(project.name, Str(UnnamedProject)),
                    !.projectUuid = Coalesce(project.uuid, Undefined)]]

\* every request succeeded: the results in the order of the projects, flat
RECURSIVE fetchProjectEnvironments(_)
fetchProjectEnvironments(ps) ==
    IF ps = <<>> THEN <<>>
    ELSE ProjectRequest(Head(ps)) \o fetchProjectEnvironments(Tail(ps))

-----------------------------------------------------------------------------
(* lib/resources: the resource unifier *)

Application(id, uuid, name, fqdn, environment_id, environment_uuid) ==
    [id |-> id, uuid |-> uuid, name |-> name, fqdn |-> fqdn,
     git_repository |-> Undefined, git_branch |-> Undefined,
     environment_id |-> environment_id, environment_uuid |-> environment_uuid,
     status |-> Undefined, deployment_status |-> Undefined,
     last_deployment_status |-> Undefined]

Service(id, uuid, name, environment_id, environment_uuid) ==
    [id |-> id, uuid |-> uuid, name |-> name, description |-> Undefined,
     environment_id |-> environment_id, environment_uuid |-> environment_uuid,
     service_type |-> Undefined]

Database(id, uuid, name, environment_id, environment_uuid) ==
    [id |-> id, uuid |-> uuid, name |-> name, description |-> Undefined,
     environment_id |-> environment_id, environment_uuid |-> environment_uuid,
     db_type |-> Undefined]

Https == <<"h", "t", "t", "p", "s", ":", "/", "/">>
Http == <<"h", "t", "t", "p", ":", "/", "/">>

getPrimaryUrl(app) ==
    IF ~Truthy(app.fqdn) THEN Undefined
    ELSE LET comma == IndexOf(app.fqdn.s, <<",">>)
             first == IF comma = 0 THEN app.fqdn.s
                      ELSE SubSeq(app.fqdn.s, 1, comma - 1)
             raw == Trim(first)
         IN  IF raw = <<>> THEN Undefined
             ELSE IF StartsWith(raw, Http) \/ StartsWith(raw, Https)
             THEN Str(raw)
             ELSE Str(Https \o raw)

\* search-applications: getPrimaryUrl
getPrimaryUrl_Applications(app) ==
    IF ~Truthy(app.fqdn) THEN Undefined
    ELSE LET comma == IndexOf(app.fqdn.s, <<",">>)
             first == IF comma = 0 THEN app.fqdn.s
                      ELSE SubSeq(app.fqdn.s, 1, comma - 1)
             raw == Trim(first)
         IN  IF raw = <<>> THEN Undefined
             ELSE IF StartsWith(raw, Http) \/ StartsWith(raw, Https)
             THEN Str(raw)
             ELSE Str(Https \o raw)

TypeApplication == <<"a", "p", "p", "l", "i", "c", "a", "t", "i", "o", "n">>
TypeService == <<"s", "e", "r", "v", "i", "c", "e">>
TypeDatabase == <<"d", "a", "t", "a", "b", "a", "s", "e">>
UnnamedApplication ==
    <<"U", "n", "n", "a", "m", "e", "d", " ", "A", "p", "p", "l", "i", "c",
      "a", "t", "i", "o", "n">>
UnnamedService ==
    <<"U", "n", "n", "a", "m", "e", "d", " ", "S", "e", "r", "v", "i", "c",
      "e">>
UnnamedDatabase ==
    <<"U", "n", "n", "a", "m", "e", "d", " ", "D", "a", "t", "a", "b", "a",
      "s", "e">>
\* " * " stands for the bullet separator (U+2022 between two spaces)
SubtitleSeparator == <<" ", "*", " ">>

\* ResourceItem: one record shape for the three types; a property the item
\* does not carry is Undefined
AppItem(app) ==
    [id |-> Str(String(Coalesce(Coalesce(Coalesce(app.id, app.uuid), app.name),
                                Str(<<"a", "p", "p">>)))),
     uuid |-> IF Truthy(app.uuid) THEN Str(String(app.uuid)) ELSE Undefined,
     type |-> Str(TypeApplication),
     name |-> Coalesce(app.name, Str(UnnamedApplication)),
     subtitle |-> Str(JoinTruthy(<<app.git_branch, getPrimaryUrl(app)>>,
                                 SubtitleSeparator)),
     environmentId |-> Str(String(Coalesce(Coalesce(app.environment_id,
                                                    app.environment_uuid),
                                           Str(<<>>)))),
     repo |-> app.git_repository,
     url |-> getPrimaryUrl(app),
     status |-> Coalesce(Coalesce(app.status, app.deployment_status),
                         app.last_deployment_status),
     kind |-> Undefined]

ServiceItem(service) ==
    [id |-> Str(String(Coalesce(Coalesce(Coalesce(service.id, service.uuid),
                                         service.name),
                                Str(TypeService)))),
     uuid |-> IF Truthy(service.uuid) THEN Str(String(service.uuid))
              ELSE Undefined,
     type |-> Str(TypeService),
     name |-> Coalesce(service.name, Str(UnnamedService)),
     subtitle |-> service.description,
     environmentId |-> Str(String(Coalesce(Coalesce(service.environment_id,
                                                    service.environment_uuid),
                                           Str(<<>>)))),
     repo |-> Undefined,
     url |-> Undefined,
     status |-> Undefined,
     kind |-> service.service_type]

DatabaseItem(database) ==
    [id |-> Str(String(Coalesce(Coalesce(Coalesce(database.id, database.uuid),
                                         database.name),
                                Str(<<"d", "b">>)))),
     uuid |-> IF Truthy(database.uuid) THEN Str(String(database.uuid))
              ELSE Undefined,
     type |-> Str(TypeDatabase),
     name |-> Coalesce(database.name, Str(UnnamedDatabase)),
     subtitle |-> database.description,
     environmentId |-> Str(String(Coalesce(Coalesce(database.environment_id,
                                                    database.environment_uuid),
                                           Str(<<>>)))),
     repo |-> Undefined,
     url |-> Undefined,
     status |-> Undefined,
     kind |-> database.db_type]

buildResources_DatabasesFirst(apps, svcs, dbs) ==
    [i \in 1..Len(dbs) |-> DatabaseItem(dbs[i])]
        \o [i \in 1..Len(svcs) |-> ServiceItem(svcs[i])]
        \o [i \in 1..Len(apps) |-> AppItem(apps[i])]

buildResources(apps, svcs, dbs) ==
    [i \in 1..Len(apps) |-> AppItem(apps[i])]
        \o [i \in 1..Len(svcs) |-> ServiceItem(svcs[i])]
        \o [i \in 1..Len(dbs) |-> DatabaseItem(dbs[i])]

-----------------------------------------------------------------------------
(* The filter engine: one applyFilter per view *)

FilterAll == <<"a", "l", "l">>
FilterStatusActive ==
    <<"s", "t", "a", "t", "u", "s", ":", "a", "c", "t", "i", "v", "e">>
ProjectPrefix == <<"p", "r", "o", "j", "e", "c", "t", ":">>
EnvPrefix == <<"e", "n", "v", ":">>
TypePrefix == <<"t", "y", "p", "e", ":">>

\* envToProjectMap.get(envId) === projectId
MapsTo(map, envId, projectId) == MapHas(map, envId) /\ map[envId] = projectId

applyFilter_Resources_EnvUnknownAll(items, value, toProject, nameToIds) ==
    IF value = FilterAll THEN items
    ELSE IF StartsWith(value, ProjectPrefix)
    THEN LET projectId == Replace(value, ProjectPrefix, <<>>)
         IN  SelectSeq(items, LAMBDA item :
                 LET envId == Coalesce(item.environmentId, Str(<<>>)).s
                 IN  MapsTo(toProject, envId, projectId))
    ELSE IF StartsWith(value, EnvPrefix)
    THEN LET envName == Replace(value, EnvPrefix, <<>>)
         IN  IF ~MapHas(nameToIds, envName) THEN items
             ELSE SelectSeq(items, LAMBDA item :
                      Coalesce(item.environmentId, Str(<<>>)).s
                          \in nameToIds[envName])
    ELSE IF StartsWith(value, TypePrefix)
    THEN LET type == Replace(value, TypePrefix, <<>>)
         IN  SelectSeq(items, LAMBDA item : item.type.s = type)
    ELSE items

\* search-resources: applyFilter
applyFilter_Resources(items, value, toProject, nameToIds) ==
    IF value = FilterAll THEN items
    ELSE IF StartsWith(value, ProjectPrefix)
    THEN LET projectId == Replace(value, ProjectPrefix, <<>>)
         IN  SelectSeq(items, LAMBDA item :
                 LET envId == Coalesce(item.environmentId, Str(<<>>)).s
                 IN  MapsTo(toProject, envId, projectId))
    ELSE IF StartsWith(value, EnvPrefix)
    THEN LET envName == Replace(value, EnvPrefix, <<>>)
         IN  IF ~MapHas(nameToIds, envName) THEN <<>>
             ELSE SelectSeq(items, LAMBDA item :
                      Coalesce(item.environmentId, Str(<<>>)).s
                          \in nameToIds[envName])
    ELSE IF StartsWith(value, TypePrefix)
    THEN LET type == Replace(value, TypePrefix, <<>>)
         IN  SelectSeq(items, LAMBDA item : item.type.s = type)
    ELSE items

applyFilter_Applications_Unguarded(items, value, toProject, hasEnvMapping, nameToIds) ==
    IF value = FilterAll THEN items
    ELSE IF StartsWith(value, EnvPrefix)
    THEN LET envName == Replace(value, EnvPrefix, <<>>)
         IN  IF ~MapHas(nameToIds, envName) THEN <<>>
             ELSE SelectSeq(items, LAMBDA item :
                      String(Coalesce(item.environment_id, Str(<<>>)))
                          \in nameToIds[envName])
    ELSE IF StartsWith(value, ProjectPrefix)
    THEN LET projectId == Replace(value, ProjectPrefix, <<>>)
         IN  SelectSeq(items, LAMBDA item :
                 LET envId == String(Coalesce(item.environment_id, Str(<<>>)))
                 IN  MapsTo(toProject, envId, projectId))
    ELSE items

\* search-applications: applyFilter
applyFilter_Applications(items, value, toProject, hasEnvMapping, nameToIds) ==
    IF value = FilterAll THEN items
    ELSE IF StartsWith(value, EnvPrefix)
    THEN LET envName == Replace(value, EnvPrefix, <<>>)
         IN  IF ~MapHas(nameToIds, envName) THEN <<>>
             ELSE SelectSeq(items, LAMBDA item :
                      String(Coalesce(item.environment_id, Str(<<>>)))
                          \in nameToIds[envName])
    ELSE IF StartsWith(value, ProjectPrefix)
    THEN IF ~hasEnvMapping THEN items
         ELSE LET projectId == Replace(value, ProjectPrefix, <<>>)
              IN  SelectSeq(items, LAMBDA item :
                      LET envId == String(Coalesce(item.environment_id,
                                                   Str(<<>>)))
                      IN  MapsTo(toProject, envId, projectId))
    ELSE items

\* search-services: applyFilter
applyFilter_Services_AllHidden(items, value, toProject, nameToIds) ==
    IF value = FilterAll THEN <<>>
    ELSE IF StartsWith(value, EnvPrefix)
    THEN LET envName == Replace(value, EnvPrefix, <<>>)
         IN  IF ~MapHas(nameToIds, envName) THEN <<>>
             ELSE SelectSeq(items, LAMBDA item :
                      String(Coalesce(item.environment_id, Str(<<>>)))
                          \in nameToIds[envName])
    ELSE IF StartsWith(value, ProjectPrefix)
    THEN LET projectId == Replace(value, ProjectPrefix, <<>>)
         IN  SelectSeq(items, LAMBDA item :
                 LET envId == String(Coalesce(item.environment_id, Str(<<>>)))
                 IN  MapsTo(toProject, envId, projectId))
    ELSE items

applyFilter_Services(items, value, toProject, nameToIds) ==
    IF value = FilterAll THEN items
    ELSE IF StartsWith(value, EnvPrefix)
    THEN LET envName == Replace(value, EnvPrefix, <<>>)
         IN  IF ~MapHas(nameToIds, envName) THEN <<>>
             ELSE SelectSeq(items, LAMBDA item :
                      String(Coalesce(item.environment_id, Str(<<>>)))
                          \in nameToIds[envName])
    ELSE IF StartsWith(value, ProjectPrefix)
    THEN LET projectId == Replace(value, ProjectPrefix, <<>>)
         IN  SelectSeq(items, LAMBDA item :
                 LET envId == String(Coalesce(item.environment_id, Str(<<>>)))
                 IN  MapsTo(toProject, envId, projectId))
    ELSE items

\* search-databases: applyFilter
applyFilter_Databases(items, value, toProject, nameToIds) ==
    IF value = FilterAll THEN items
    ELSE IF StartsWith(value, EnvPrefix)
    THEN LET envName == Replace(value, EnvPrefix, <<>>)
         IN  IF ~MapHas(nameToIds, envName) THEN <<>>
             ELSE SelectSeq(items, LAMBDA item :
                      String(Coalesce(item.environment_id, Str(<<>>)))
                          \in nameToIds[envName])
    ELSE IF StartsWith(value, ProjectPrefix)
    THEN LET projectId == Replace(value, ProjectPrefix, <<>>)
         IN  SelectSeq(items, LAMBDA item :
                 LET envId == String(Coalesce(item.environment_id, Str(<<>>)))
                 IN  MapsTo(toProject, envId, projectId))
    ELSE items

-----------------------------------------------------------------------------
(* The deployments view *)

Deployment(id, status, sourceUuid, appUuid, appId, envId, envUuid) ==
    [id |-> id, deployment_uuid |-> Undefined, status |-> status,
     application_id |-> appId, application_uuid |-> appUuid,
     application_name |-> Undefined, source_app_uuid |-> sourceUuid,
     environment_id |-> envId, environment_uuid |-> envUuid,
     commit |-> Undefined, commit_message |-> Undefined,
     created_at |-> Undefined]

ACTIVE_STATUSES ==
    { <<"r", "u", "n", "n", "i", "n", "g">>,
      <<"q", "u", "e", "u", "e", "d">>,
      <<"p", "e", "n", "d", "i", "n", "g">>,
      <<"i", "n", "_", "p", "r", "o", "g", "r", "e", "s", "s">>,
      <<"d", "e", "p", "l", "o", "y", "i", "n", "g">>,
      <<"b", "u", "i", "l", "d", "i", "n", "g">> }

normalizeStatus_NoHyphens(status) ==
    ReplaceRuns(ToLowerCase(Coalesce(status, Str(<<>>)).s), WhiteSpace, <<"_">>)

normalizeStatus(status) ==
    ReplaceRuns(ReplaceRuns(ToLowerCase(Coalesce(status, Str(<<>>)).s),
                            WhiteSpace, <<"_">>),
                {"-"}, <<"_">>)

\* one iteration of the loop of the appIdToEnvId memo
AppIdToEnvIdStep(map, app) ==
    LET envId == Coalesce(toId(Coalesce(app.environment_id,
                                        app.environment_uuid)),
                          Str(<<>>))
        byId == IF app.id # Undefined /\ Truthy(envId)
                THEN MapSet(map, String(app.id), envId.s) ELSE map
    IN  IF Truthy(app.uuid) /\ Truthy(envId)
        THEN MapSet(byId, String(app.uuid), envId.s) ELSE byId

RECURSIVE appIdToEnvId(_)
appIdToEnvId(apps) ==
    IF apps = <<>> THEN EmptyMap
    ELSE AppIdToEnvIdStep(appIdToEnvId(Front(apps)), Last(apps))

resolveEnvId_OwnFirst(deployment, appToEnv, appKey) ==
    LET direct == toId(Coalesce(deployment.environment_id,
                                deployment.environment_uuid))
    IN  IF Truthy(direct) THEN direct.s
        ELSE IF MapHas(appToEnv, appKey) THEN appToEnv[appKey]
        ELSE <<>>

resolveEnvId(deployment, appToEnv, appKey) ==
    IF MapHas(appToEnv, appKey) /\ appToEnv[appKey] # <<>>
    THEN appToEnv[appKey]
    ELSE Coalesce(toId(Coalesce(deployment.environment_id,
                                deployment.environment_uuid)),
                  Str(<<>>)).s

resolveAppKey(deployment) ==
    String(Coalesce(Coalesce(Coalesce(deployment.source_app_uuid,
                                      deployment.application_uuid),
                             deployment.application_id),
                    Str(<<>>)))

\* deployments view: applyFilter
applyFilter_Deployments(items, value, toProject, nameToIds, appToEnv) ==
    IF value = FilterAll THEN items
    ELSE IF value = FilterStatusActive
    THEN SelectSeq(items, LAMBDA item :
             normalizeStatus(item.status) \in ACTIVE_STATUSES)
    ELSE IF StartsWith(value, ProjectPrefix)
    THEN LET projectId == Replace(value, ProjectPrefix, <<>>)
         IN  SelectSeq(items, LAMBDA item :
                 LET appKey == resolveAppKey(item)
                     envId == resolveEnvId(item, appToEnv, appKey)
                 IN  MapsTo(toProject, envId, projectId))
    ELSE IF StartsWith(value, EnvPrefix)
    THEN LET envName == Replace(value, EnvPrefix, <<>>)
         IN  IF ~MapHas(nameToIds, envName) THEN <<>>
             ELSE SelectSeq(items, LAMBDA item :
                      LET appKey == resolveAppKey(item)
                          envId == resolveEnvId(item, appToEnv, appKey)
                      IN  envId \in nameToIds[envName])
    ELSE items

-----------------------------------------------------------------------------
(* api/client: the instance URL; the URL resolvers of the views *)

\* String.prototype.endsWith
EndsWith(x, suffix) ==
    Len(x) >= Len(suffix)
        /\ SubSeq(x, Len(x) - Len(suffix) + 1, Len(x)) = suffix

\* x.replace(/\/+$/, "")
RECURSIVE StripTrailingSlashes(_)
StripTrailingSlashes(x) ==
    IF x # <<>> /\ x[Len(x)] = "/" THEN StripTrailingSlashes(Front(x)) ELSE x

DEFAULT_BASE_URL ==
    <<"h", "t", "t", "p", "s", ":", "/", "/", "a", "p", "p", ".", "c", "o",
      "o", "l", "i", "f", "y", ".", "i", "o", "/", "a", "p", "i", "/", "v",
      "1">>
ApiV1 == <<"/", "a", "p", "i", "/", "v", "1">>

normalizeBaseUrl(input) ==
    LET trimmed == StripTrailingSlashes(Trim(input))
    IN  IF trimmed = <<>> THEN DEFAULT_BASE_URL
        ELSE IF EndsWith(trimmed, ApiV1) THEN trimmed
        ELSE trimmed \o ApiV1

\* baseUrl.replace(/\/api\/v1$/, "")
getInstanceUrl(baseUrl) ==
    IF EndsWith(baseUrl, ApiV1)
    THEN SubSeq(baseUrl, 1, Len(baseUrl) - Len(ApiV1))
    ELSE baseUrl

ProjectSegment == <<"/", "p", "r", "o", "j", "e", "c", "t", "/">>
EnvironmentSegment == <<"/", "e", "n", "v", "i", "r", "o", "n", "m", "e", "n", "t", "/">>
ApplicationSegment == <<"/", "a", "p", "p", "l", "i", "c", "a", "t", "i", "o", "n", "/">>
ServiceSegment == <<"/", "s", "e", "r", "v", "i", "c", "e", "/">>
DatabaseSegment == <<"/", "d", "a", "t", "a", "b", "a", "s", "e", "/">>
DeploymentSegment == <<"/", "d", "e", "p", "l", "o", "y", "m", "e", "n", "t", "/">>
LogsSegment == <<"/", "l", "o", "g", "s">>

resolveResourceUrl_KeepSlashes(instanceUrl, projectUuid, environmentUuid, resourceUuid, type) ==
    IF ~Truthy(projectUuid) \/ ~Truthy(environmentUuid) \/ ~Truthy(resourceUuid)
    THEN Undefined
    ELSE LET base == instanceUrl
         IN  Str(base \o ProjectSegment \o String(projectUuid)
                      \o EnvironmentSegment \o String(environmentUuid)
                      \o <<"/">> \o String(type)
                      \o <<"/">> \o String(resourceUuid))

\* search-resources: resolveResourceUrl
resolveResourceUrl(instanceUrl, projectUuid, environmentUuid, resourceUuid, type) ==
    IF ~Truthy(projectUuid) \/ ~Truthy(environmentUuid) \/ ~Truthy(resourceUuid)
    THEN Undefined
    ELSE LET base == StripTrailingSlashes(instanceUrl)
         IN  Str(base \o ProjectSegment \o String(projectUuid)
                      \o EnvironmentSegment \o String(environmentUuid)
                      \o <<"/">> \o String(type)
                      \o <<"/">> \o String(resourceUuid))

\* components/environment-resources: resolveResourceUrl
resolveResourceUrl_EnvironmentResources(instanceUrl, projectUuid, environmentUuid, resourceUuid, type) ==
    IF ~Truthy(projectUuid) \/ ~Truthy(environmentUuid) \/ ~Truthy(resourceUuid)
    THEN Undefined
    ELSE LET base == StripTrailingSlashes(instanceUrl)
         IN  Str(base \o ProjectSegment \o String(projectUuid)
                      \o EnvironmentSegment \o String(environmentUuid)
                      \o <<"/">> \o String(type)
                      \o <<"/">> \o String(resourceUuid))

\* search-applications: resolveResourceUrl
resolveResourceUrl_Applications(instanceUrl, projectUuid, environmentUuid, resourceUuid) ==
    IF ~Truthy(projectUuid) \/ ~Truthy(environmentUuid) \/ ~Truthy(resourceUuid)
    THEN Undefined
    ELSE LET base == StripTrailingSlashes(instanceUrl)
         IN  Str(base \o ProjectSegment \o String(projectUuid)
                      \o EnvironmentSegment \o String(environmentUuid)
                      \o ApplicationSegment \o String(resourceUuid))

\* search-services: resolveResourceUrl
resolveResourceUrl_Services(instanceUrl, projectUuid, environmentUuid, resourceUuid) ==
    IF ~Truthy(projectUuid) \/ ~Truthy(environmentUuid) \/ ~Truthy(resourceUuid)
    THEN Undefined
    ELSE LET base == StripTrailingSlashes(instanceUrl)
         IN  Str(base \o ProjectSegment \o String(projectUuid)
                      \o EnvironmentSegment \o String(environmentUuid)
                      \o ServiceSegment \o String(resourceUuid))

\* search-databases: resolveResourceUrl
resolveResourceUrl_Databases(instanceUrl, projectUuid, environmentUuid, resourceUuid) ==
    IF ~Truthy(projectUuid) \/ ~Truthy(environmentUuid) \/ ~Truthy(resourceUuid)
    THEN Undefined
    ELSE LET base == StripTrailingSlashes(instanceUrl)
         IN  Str(base \o ProjectSegment \o String(projectUuid)
                      \o EnvironmentSegment \o String(environmentUuid)
                      \o DatabaseSegment \o String(resourceUuid))

\* components/delete-resource: buildConsoleLogsUrl
buildConsoleLogsUrl(instanceUrl, projectUuid, environmentUuid, applicationUuid) ==
    IF ~Truthy(projectUuid) \/ ~Truthy(environmentUuid)
          \/ ~Truthy(applicationUuid)
    THEN Undefined
    ELSE LET base == StripTrailingSlashes(instanceUrl)
         IN  Str(base \o ProjectSegment \o String(projectUuid)
                      \o EnvironmentSegment \o String(environmentUuid)
                      \o ApplicationSegment \o String(applicationUuid)
                      \o LogsSegment)

buildCoolifyDeploymentUrl_Partial(instanceUrl, projectUuid, environmentUuid, applicationUuid, deploymentUuid) ==
    IF ~Truthy(projectUuid) \/ ~Truthy(environmentUuid)
          \/ ~Truthy(applicationUuid)
    THEN Undefined
    ELSE LET base == StripTrailingSlashes(instanceUrl)
         IN  Str(base \o ProjectSegment \o String(projectUuid)
                      \o EnvironmentSegment \o String(environmentUuid)
                      \o ApplicationSegment \o String(applicationUuid)
                      \o DeploymentSegment
                      \o Coalesce(deploymentUuid, Str(<<>>)).s)

\* deployments view: buildCoolifyDeploymentUrl
buildCoolifyDeploymentUrl(instanceUrl, projectUuid, environmentUuid, applicationUuid, deploymentUuid) ==
    IF ~Truthy(projectUuid) \/ ~Truthy(environmentUuid)
          \/ ~Truthy(applicationUuid) \/ ~Truthy(deploymentUuid)
    THEN Undefined
    ELSE LET base == StripTrailingSlashes(instanceUrl)
         IN  Str(base \o ProjectSegment \o String(projectUuid)
                      \o EnvironmentSegment \o String(environmentUuid)
                      \o ApplicationSegment \o String(applicationUuid)
                      \o DeploymentSegment \o String(deploymentUuid))

\* deployments view: buildCoolifyLogsUrl
buildCoolifyLogsUrl(instanceUrl, projectUuid, environmentUuid, applicationUuid) ==
    IF ~Truthy(projectUuid) \/ ~Truthy(environmentUuid)
          \/ ~Truthy(applicationUuid)
    THEN Undefined
    ELSE LET base == StripTrailingSlashes(instanceUrl)
         IN  Str(base \o ProjectSegment \o String(projectUuid)
                      \o EnvironmentSegment \o String(environmentUuid)
                      \o ApplicationSegment \o String(applicationUuid)
                      \o LogsSegment)

-----------------------------------------------------------------------------
(* search-resources: search, sort, grouping and links of the resources view *)

\* String.prototype.includes
Includes(x, pattern) == IndexOf(x, pattern) # 0

\* the haystack of an item: [..].filter(Boolean).join(" ").toLowerCase()
ResourceHaystack(item) ==
    ToLowerCase(JoinTruthy(<<item.name, item.subtitle, item.repo, item.kind,
                             item.type>>, <<" ">>))

\* as searchResources, were the matches ranked before the other items
searchResources_MatchesFirst(withFilter, text) ==
    LET lower == ToLowerCase(Trim(text))
        matches(item) == Includes(ResourceHaystack(item), lower)
    IN  IF lower = <<>> THEN withFilter
        ELSE SelectSeq(withFilter, matches)
                 \o SelectSeq(withFilter, LAMBDA item : ~matches(item))

\* the filteredResources memo
searchResources(withFilter, text) ==
    LET lower == ToLowerCase(Trim(text))
    IN  IF lower = <<>> THEN withFilter
        ELSE SelectSeq(withFilter, LAMBDA item :
                 Includes(ResourceHaystack(item), lower))

\* String.prototype.localeCompare: characters compare by their collation
\* rank whatever their case, white space and punctuation before digits
\* before letters; strings equal up to case compare lower case first
CollationOrder ==
    <<" ", "_", "-", ",", ":", ".", "*", "/",
      "0", "1", "2", "3", "4", "5", "6", "7", "8", "9",
      "a", "b", "c", "d", "e", "f", "g", "h", "i", "j", "k", "l", "m",
      "n", "o", "p", "q", "r", "s", "t", "u", "v", "w", "x", "y", "z">>

CollationRank(c) ==
    LET lower == ToLowerCase(<<c>>)[1]
        at == {k \in 1..Len(CollationOrder) : CollationOrder[k] = lower}
    IN  IF at = {} THEN Len(CollationOrder) + 1 ELSE CHOOSE k \in at : TRUE

CaseRank(c) == IF ToLowerCase(<<c>>)[1] = c THEN 0 ELSE 1

\* the sign of the first difference of two sequences of ranks; a proper
\* prefix comes first
RECURSIVE CompareRanks(_, _)
CompareRanks(a, b) ==
    IF a = <<>> /\ b = <<>> THEN 0
    ELSE IF a = <<>> THEN -1
    ELSE IF b = <<>> THEN 1
    ELSE IF Head(a) < Head(b) THEN -1
    ELSE IF Head(a) > Head(b) THEN 1
    ELSE CompareRanks(Tail(a), Tail(b))

localeCompare(a, b) ==
    LET primary == CompareRanks([i \in 1..Len(a) |-> CollationRank(a[i])],
                                [i \in 1..Len(b) |-> CollationRank(b[i])])
    IN  IF primary # 0 THEN primary
        ELSE CompareRanks([i \in 1..Len(a) |-> CaseRank(a[i])],
                          [i \in 1..Len(b) |-> CaseRank(b[i])])

typeOrder(type) ==
    CASE type = TypeApplication -> 1
      [] type = TypeService -> 2
      [] type = TypeDatabase -> 3
      [] OTHER -> 99

Unassigned == <<"U", "n", "a", "s", "s", "i", "g", "n", "e", "d">>
Unknown == <<"U", "n", "k", "n", "o", "w", "n">>

\* the entry of one item: the item with its project and environment names
ResourceEntry(item, lookup, names) ==
    LET envId == Coalesce(item.environmentId, Str(<<>>)).s
        projectName == IF MapHas(lookup, envId)
                       THEN Coalesce(lookup[envId].projectName, Str(Unassigned))
                       ELSE Str(Unassigned)
        envName == IF MapHas(names, envId) THEN names[envId] ELSE Unknown
    IN  [item |-> item, projectName |-> projectName.s, envName |-> envName]

\* the comparator of entries.sort
CompareEntries(a, b) ==
    LET projectCompare == localeCompare(a.projectName, b.projectName)
        envCompare == localeCompare(a.envName, b.envName)
        typeCompare == typeOrder(a.item.type.s) - typeOrder(b.item.type.s)
    IN  IF projectCompare # 0 THEN projectCompare
        ELSE IF envCompare # 0 THEN envCompare
        ELSE IF typeCompare # 0 THEN typeCompare
        ELSE localeCompare(a.item.name.s, b.item.name.s)

InsertEntry_Unsorted(sorted, entry) == Append(sorted, entry)

\* Array.prototype.sort is stable: an entry goes behind every entry that
\* does not compare greater
InsertEntry(sorted, entry) ==
    LET greater == {i \in 1..Len(sorted) : CompareEntries(sorted[i], entry) > 0}
    IN  IF greater = {} THEN Append(sorted, entry)
        ELSE LET i == CHOOSE i \in greater : \A j \in greater : i <= j
             IN  SubSeq(sorted, 1, i - 1) \o <<entry>>
                     \o SubSeq(sorted, i, Len(sorted))

RECURSIVE sortEntries(_)
sortEntries(entries) ==
    IF entries = <<>> THEN <<>>
    ELSE InsertEntry(sortEntries(Front(entries)), Last(entries))

GroupStep_ByEnvironment(groups, entry) ==
    LET at == {g \in 1..Len(groups) : groups[g].projectName = entry.envName}
    IN  IF at = {}
        THEN Append(groups, [projectName |-> entry.envName,
                             items |-> <<entry>>])
        ELSE LET g == CHOOSE g \in at : TRUE
             IN  [groups EXCEPT ![g].items = Append(@, entry)]

\* one iteration of the grouping loop; the groups are kept in the order in
\* which the Map received them
GroupStep(groups, entry) ==
    LET at == {g \in 1..Len(groups) : groups[g].projectName = entry.projectName}
    IN  IF at = {}
        THEN Append(groups, [projectName |-> entry.projectName,
                             items |-> <<entry>>])
        ELSE LET g == CHOOSE g \in at : TRUE
             IN  [groups EXCEPT ![g].items = Append(@, entry)]

RECURSIVE groupEntries(_)
groupEntries(entries) ==
    IF entries = <<>> THEN <<>>
    ELSE GroupStep(groupEntries(Front(entries)), Last(entries))

\* the groupedResources memo
groupResources(filtered, lookup, names) ==
    groupEntries(sortEntries([i \in 1..Len(filtered) |->
                                 ResourceEntry(filtered[i], lookup, names)]))

\* the preference and the instance URL the links are built on
apiUrl == Str(
    <<"h", "t", "t", "p", "s", ":", "/", "/", "i", "n", "s", "t", "a", "n",
      "c", "e", "/">>)
instanceUrl == getInstanceUrl(normalizeBaseUrl(Coalesce(apiUrl, Str(<<>>)).s))

clientSafe(value) == Coalesce(value, Str(<<>>))

\* the resourceUrl of one rendered item
RenderedResourceUrl(item, lookup) ==
    LET envId == Coalesce(item.environmentId, Str(<<>>)).s
        envInfo == IF MapHas(lookup, envId) THEN lookup[envId]
                   ELSE [projectUuid |-> Undefined, uuid |-> Undefined]
        projectUuid == clientSafe(envInfo.projectUuid)
        envUuid == clientSafe(envInfo.uuid)
    IN  resolveResourceUrl(instanceUrl, projectUuid, envUuid, item.uuid,
                           item.type)

-----------------------------------------------------------------------------
(* deployments view: sort and search of the filteredDeployments memo *)

\* new Date(text).getTime() of a date written YYYY-MM-DD, up to a monotone
\* change of scale: the digits read as one number
RECURSIVE DateTime(_)
DateTime(text) ==
    IF text = <<>> THEN 0
    ELSE LET last == text[Len(text)]
             digit == {k \in 1..Len(Digits) : Digits[k] = last}
         IN  IF digit = {} THEN DateTime(Front(text))
             ELSE 10 * DateTime(Front(text)) + (CHOOSE k \in digit : TRUE) - 1

\* a.created_at ? new Date(a.created_at).getTime() : 0
CreatedTime(deployment) ==
    IF Truthy(deployment.created_at) THEN DateTime(deployment.created_at.s)
    ELSE 0

\* the comparator of the sort: bTime - aTime
CompareDeployments(a, b) == CreatedTime(b) - CreatedTime(a)

InsertDeployment_Ascending(sorted, deployment) ==
    LET greater == {i \in 1..Len(sorted) :
                       CompareDeployments(deployment, sorted[i]) > 0}
    IN  IF greater = {} THEN Append(sorted, deployment)
        ELSE LET i == CHOOSE i \in greater : \A j \in greater : i <= j
             IN  SubSeq(sorted, 1, i - 1) \o <<deployment>>
                     \o SubSeq(sorted, i, Len(sorted))

\* Array.prototype.sort is stable
InsertDeployment(sorted, deployment) ==
    LET greater == {i \in 1..Len(sorted) :
                       CompareDeployments(sorted[i], deployment) > 0}
    IN  IF greater = {} THEN Append(sorted, deployment)
        ELSE LET i == CHOOSE i \in greater : \A j \in greater : i <= j
             IN  SubSeq(sorted, 1, i - 1) \o <<deployment>>
                     \o SubSeq(sorted, i, Len(sorted))

RECURSIVE sortDeployments(_)
sortDeployments(items) ==
    IF items = <<>> THEN <<>>
    ELSE InsertDeployment(sortDeployments(Front(items)), Last(items))

DeploymentHaystack(deployment) ==
    ToLowerCase(JoinTruthy(<<deployment.application_name,
                             deployment.commit_message, deployment.commit,
                             deployment.status>>, <<" ">>))

searchDeployments_Unsorted(withFilter, text) ==
    LET lower == ToLowerCase(Trim(text))
        sorted == withFilter
    IN  IF lower = <<>> THEN sorted
        ELSE SelectSeq(sorted, LAMBDA deployment :
                 Includes(DeploymentHaystack(deployment), lower))

\* the filteredDeployments memo, after applyFilter
searchDeployments(withFilter, text) ==
    LET lower == ToLowerCase(Trim(text))
        sorted == sortDeployments(withFilter)
    IN  IF lower = <<>> THEN sorted
        ELSE SelectSeq(sorted, LAMBDA deployment :
                 Includes(DeploymentHaystack(deployment), lower))

-----------------------------------------------------------------------------
(* deployments view: the fetch of the deployments *)

\* the limit on the number of records of one fetch
DeploymentCap == 200

\* the step of the loop over appUuids
batchSize == 1

\* xs.slice(0, end)
Slice(xs, end) == SubSeq(xs, 1, IF Len(xs) < end THEN Len(xs) ELSE end)

\* GET /deployments
GlobalRequest == [path |-> "/deployments", uuid |-> <<>>]

\* GET /deployments/applications/{uuid}?take=5
ApplicationRequest(uuid) ==
    [path |-> "/deployments/applications", uuid |-> uuid]

NextSubRequests_FanOut(uuids, i) ==
    [k \in 1..(Len(uuids) - i + 1) |-> ApplicationRequest(uuids[i + k - 1])]

\* the requests one iteration of the loop sends before it awaits
NextSubRequests(uuids, i) ==
    [k \in 1..batchSize |-> ApplicationRequest(uuids[i + k - 1])]

\* list.map((row) => ({ ...row, source_app_uuid: uuid }))
StampRows(list, uuid) ==
    [k \in 1..Len(list) |-> [list[k] EXCEPT !.source_app_uuid = Str(uuid)]]

-----------------------------------------------------------------------------
(* pages/with-valid-token, utils/is-valid-token: the token gate *)

GateView_ErrorIgnored(isLoading, error) ==
    IF isLoading THEN "loading" ELSE "children"

\* the element WithValidToken returns
GateView(isLoading, error) ==
    IF isLoading THEN "loading"
    ELSE IF Truthy(error) THEN "invalid-token"
    ELSE "children"

\* const token = apiToken?.trim() ?? ""
GateToken(apiToken) ==
    IF Nullish(apiToken) THEN <<>> ELSE Trim(apiToken.s)

MissingApiToken == Str(    <<"M", "i", "s", "s", "i", "n", "g", " ", "A", "P", "I", " ", "t", "o",
      "k", "e", "n">>)

\* requestJson("/projects", { baseUrl, token })
ProjectsRequest(preference, token) ==
    [url |-> normalizeBaseUrl(Coalesce(preference, Str(<<>>)).s) \o <<"/", "p", "r", "o", "j", "e", "c", "t", "s">>,
     authorization |-> <<"B", "e", "a", "r", "e", "r", " ">> \o token]

\* new Error(`Coolify API error: ${response.status}`)
ApiError(status) == Str(<<"C", "o", "o", "l", "i", "f", "y", " ", "A", "P", "I", " ", "e", "r", "r", "o", "r", ":", " ">> \o NatToString(status))

-----------------------------------------------------------------------------
(* mutation forms: the submit handlers *)

JsonWhiteSpace == {" ", "\t", "\n", "\r"}

DigitChars == {Digits[k] : k \in 1..Len(Digits)}

\* the first position from pos on that holds no JSON white space
RECURSIVE SkipJsonWhiteSpace(_, _)
SkipJsonWhiteSpace(text, pos) ==
    IF pos <= Len(text) /\ text[pos] \in JsonWhiteSpace
    THEN SkipJsonWhiteSpace(text, pos + 1)
    ELSE pos

\* the first position from pos on that holds no digit
RECURSIVE SkipDigits(_, _)
SkipDigits(text, pos) ==
    IF pos <= Len(text) /\ text[pos] \in DigitChars
    THEN SkipDigits(text, pos + 1)
    ELSE pos

\* JSON.parse over texts of brackets, commas, white space and digits: the
\* position behind the value that starts at pos, 0 for a SyntaxError
RECURSIVE JsonValueEnd(_, _)
RECURSIVE JsonElementsEnd(_, _)
JsonValueEnd(text, pos) ==
    IF pos > Len(text) THEN 0
    ELSE IF text[pos] = "0" THEN pos + 1
    ELSE IF text[pos] \in DigitChars THEN SkipDigits(text, pos)
    ELSE IF text[pos] = "["
         THEN LET first == SkipJsonWhiteSpace(text, pos + 1)
              IN  IF first <= Len(text) /\ text[first] = "]"
                  THEN first + 1
                  ELSE JsonElementsEnd(text, first)
    ELSE 0

JsonElementsEnd(text, pos) ==
    LET after == JsonValueEnd(text, pos)
        next == SkipJsonWhiteSpace(text, after)
    IN  IF after = 0 \/ next > Len(text) THEN 0
        ELSE IF text[next] = "]" THEN next + 1
        ELSE IF text[next] = ","
             THEN JsonElementsEnd(text, SkipJsonWhiteSpace(text, next + 1))
        ELSE 0

\* JSON.parse(text) returns
JsonParses(text) ==
    LET after == JsonValueEnd(text, SkipJsonWhiteSpace(text, 1))
    IN  after # 0 /\ SkipJsonWhiteSpace(text, after) = Len(text) + 1

\* the value JSON.parse(text) returns, written without white space
JsonParsed(text) == SelectSeq(text, LAMBDA c : c \notin JsonWhiteSpace)

\* values.payload || "[]"
BulkPayload(payload) == IF payload = <<>> THEN <<"[", "]">> ELSE payload

\* String(flag) of a checkbox value
FlagText(flag) ==
    IF flag THEN <<"t", "r", "u", "e">> ELSE <<"f", "a", "l", "s", "e">>

\* new URLSearchParams({ delete_volumes, delete_connected_networks,
\* delete_configurations, docker_cleanup }) as a string
DeleteParams(values) ==
    <<"d", "e", "l", "e", "t", "e", "_", "v", "o", "l", "u", "m", "e", "s", "=">>
        \o FlagText(values.delete_volumes)
    \o <<"&", "d", "e", "l", "e", "t", "e", "_", "c", "o", "n", "n", "e", "c", "t", "e", "d", "_", "n", "e", "t", "w", "o", "r", "k", "s", "=">>
        \o FlagText(values.delete_connected_networks)
    \o <<"&", "d", "e", "l", "e", "t", "e", "_", "c", "o", "n", "f", "i", "g", "u", "r", "a", "t", "i", "o", "n", "s", "=">>
        \o FlagText(values.delete_configurations)
    \o <<"&", "d", "o", "c", "k", "e", "r", "_", "c", "l", "e", "a", "n", "u", "p", "=">>
        \o FlagText(values.docker_cleanup)

\* `/${resourceTypeToEndpoint(resource.type)}/${resource.uuid}/envs`
envVarsPath(resource) ==
    <<"/">> \o (IF resource.type = "application"
                THEN <<"a", "p", "p", "l", "i", "c", "a", "t", "i", "o", "n", "s">>
                ELSE <<"s", "e", "r", "v", "i", "c", "e", "s">>)
    \o <<"/">> \o resource.uuid \o <<"/", "e", "n", "v", "s">>

\* the request the onSubmit handler of a form sends
FormRequest(props, payload) ==
    CASE props.form = "DeleteResourceForm" ->
            [method |-> "DELETE",
             path |-> <<"/">> \o props.resourceType \o <<"s", "/">>
                      \o props.uuid \o <<"?">> \o DeleteParams(props.values),
             body |-> <<>>]
      [] props.form = "EnvVarForm" ->
            [method |-> IF props.isEdit THEN "PATCH" ELSE "POST",
             path |-> envVarsPath(props.resource),
             body |-> <<"v", "a", "l", "u", "e", "s">>]
      [] props.form = "BulkEnvVarForm" ->
            [method |-> "PATCH",
             path |-> envVarsPath(props.resource) \o <<"/", "b", "u", "l", "k">>,
             body |-> JsonParsed(BulkPayload(payload))]
      [] props.form = "CreateServerForm" ->
            [method |-> "POST",
             path |-> <<"/", "s", "e", "r", "v", "e", "r", "s">>,
             body |-> <<"v", "a", "l", "u", "e", "s">>]

\* the handler reaches its request: only JSON.parse of the bulk form can
\* throw before it
ReachesRequest(props, payload) ==
    props.form = "BulkEnvVarForm" => JsonParses(BulkPayload(payload))

\* the parent callback of the form: onDeleted is optional
CallsBack(props) ==
    props.form = "DeleteResourceForm" => props.onDeleted

-----------------------------------------------------------------------------
(* resources view: the project items of the filter dropdown *)

\* const projectId = toId(project.id ?? project.uuid); a project without it
\* gets no item
ProjectItemId(project) == toId(Coalesce(project.id, project.uuid))

-----------------------------------------------------------------------------
(* Inputs of the environment relationship builder *)

MaxProjects == 2
MaxEnvs == 2

\* project payloads: id and uuid, a uuid only (and no name), a blank id
\* beside a uuid
ProjectInputs ==
    { Project(Num(1), Str(<<"p", "1">>), Str(<<"A">>), <<>>),
      Project(Undefined, Str(<<"p", "3">>), Undefined, <<>>),
      Project(Str(<<" ">>), Str(<<"p", "2">>), Str(<<"A">>), <<>>) }

\* environment payloads: id only, uuid only, both, a padded string id, a
\* blank id, an empty name, and the environment's own project references
EnvInputs ==
    { Environment(Num(10), Undefined, Str(<<"s">>), Undefined, Undefined),
      Environment(Undefined, Str(<<"e", "1">>), Str(<<"s">>),
                  Undefined, Undefined),
      Environment(Num(10), Str(<<"e", "1">>), Undefined, Num(7), Undefined),
      Environment(Str(<<" ", "1", "0">>), Undefined, Str(<<"t">>),
                  Undefined, Str(<<"p", "9">>)),
      Environment(Str(<<" ">>), Undefined, Str(<<"s">>), Undefined, Undefined),
      Environment(Num(11), Str(<<"e", "2">>), Str(<<>>),
                  Str(<<" ">>), Str(<<"p", "9">>)) }

RECURSIVE CountEnvs(_)
CountEnvs(ps) ==
    IF ps = <<>> THEN 0
    ELSE Len(Head(ps).environments) + CountEnvs(Tail(ps))

\* xs with its elements at positions i and i + 1 exchanged
SwapAt(xs, i) ==
    [k \in 1..Len(xs) |->
        IF k = i THEN xs[i + 1] ELSE IF k = i + 1 THEN xs[i] ELSE xs[k]]

-----------------------------------------------------------------------------
(* The view's derived state: useMemo over `environments` *)

InitEnvVars ==
    /\ projects = <<>>
    /\ environments = <<>>
    /\ envToProjectMap = buildEnvToProjectMap(<<>>)
    /\ envNameMap = buildEnvNameMap(<<>>)
    /\ envLookup = buildEnvLookup(<<>>)
    /\ envNameToIds = buildEnvNameToIdsMap(<<>>)

\* a projects payload arrives: the join is flattened and every lookup map is
\* rebuilt from scratch
Receive(payload) ==
    /\ projects' = payload
    /\ environments' = flattenEnvironments(payload)
    /\ envToProjectMap' = buildEnvToProjectMap(environments')
    /\ envNameMap' = buildEnvNameMap(environments')
    /\ envLookup' = buildEnvLookup(environments')
    /\ envNameToIds' = buildEnvNameToIdsMap(environments')

\* the remote side gained a project
ProjectAdded ==
    /\ Len(projects) < MaxProjects
    /\ \E project \in ProjectInputs : Receive(Append(projects, project))
    /\ UNCHANGED <<idVars, listVars, filterVars, callVars>>

\* the remote side gained an environment in one of its projects
EnvironmentAdded ==
    /\ CountEnvs(projects) < MaxEnvs
    /\ \E i \in 1..Len(projects), environment \in EnvInputs :
          Receive([projects EXCEPT
                      ![i].environments = Append(@, environment)])
    /\ UNCHANGED <<idVars, listVars, filterVars, callVars>>

\* the same projects arrive in another order
ProjectsReordered ==
    /\ \E i \in 1..(Len(projects) - 1) : Receive(SwapAt(projects, i))
    /\ UNCHANGED <<idVars, listVars, filterVars, callVars>>

\* the same environments of one project arrive in another order
EnvironmentsReordered ==
    /\ \E i \in 1..Len(projects) :
          \E j \in 1..(Len(projects[i].environments) - 1) :
              Receive([projects EXCEPT
                          ![i].environments = SwapAt(@, j)])
    /\ UNCHANGED <<idVars, listVars, filterVars, callVars>>

\* the same payload arrives again
Refetched ==
    /\ Receive(projects)
    /\ UNCHANGED <<idVars, listVars, filterVars, callVars>>

NextEnv ==
    \/ ProjectAdded
    \/ EnvironmentAdded
    \/ ProjectsReordered
    \/ EnvironmentsReordered
    \/ Refetched

-----------------------------------------------------------------------------
(* Inputs of the identifier normalizer *)

MaxIdLen == 4
IdChars == {" ", "4", "2"}

RECURSIVE StringsUpTo(_, _)
StringsUpTo(chars, k) ==
    IF k = 0 THEN {<<>>}
    ELSE LET shorter == StringsUpTo(chars, k - 1)
         IN  shorter \cup {Append(x, c) : x \in shorter, c \in chars}

IdNumbers == {0, 7, 42, 100}

IdValues ==
    {Undefined, Null}
        \cup {Num(k) : k \in IdNumbers}
        \cup {Str(x) : x \in StringsUpTo(IdChars, MaxIdLen)}

InitIdVars ==
    /\ idArg = Undefined
    /\ idRet = toId(Undefined)

CallToId ==
    /\ \E value \in IdValues :
          /\ idArg' = value
          /\ idRet' = toId(value)
    /\ UNCHANGED <<envVars, listVars, filterVars, callVars>>

NextToId == CallToId

-----------------------------------------------------------------------------
(* Inputs of normalizeList: response bodies *)

MaxRows == 2
RowNames == <<"d1", "d2", "d3", "d4">>
\* the arrays a response can carry: the first k rows, in order
RowArrays == {Arr(SubSeq(RowNames, 1, k)) : k \in 0..MaxRows}

\* the values a property can hold: absent, a scalar, an array of rows
PropertyValues ==
    {Undefined, Str(<<"x">>)} \cup RowArrays

\* the object under `data`: its own rows and data (its other properties are
\* not read)
NestedObjects == {Obj(r, d, Undefined) : r \in PropertyValues, d \in PropertyValues}

ResponseInputs ==
    {Undefined, Null, Str(<<>>), Str(<<"x">>), Num(0), Num(5), Bool(TRUE)}
        \cup RowArrays
        \cup {Obj(r, d, p) : r \in PropertyValues,
                             d \in PropertyValues \cup {Null} \cup NestedObjects,
                             p \in PropertyValues}

InitListVars ==
    /\ response = Undefined
    /\ normalized = normalizeList(Undefined)
    /\ normalizedApp = normalizeList_ApplicationDeployments(Undefined)

\* a list request resolved with some body; both views normalize it
ResponseReceived ==
    /\ \E body \in ResponseInputs :
          /\ response' = body
          /\ normalized' = normalizeList(body)
          /\ normalizedApp' = normalizeList_ApplicationDeployments(body)
    /\ UNCHANGED <<idVars, envVars, filterVars, callVars>>

NextList == ResponseReceived

-----------------------------------------------------------------------------
(* The views: inputs and state machine of the filter engine *)

MaxApplications == 2

\* two projects, each with one environment named "s"; a third project has
\* no uuid
ProjectA ==
    Project(Num(1), Str(<<"p", "1">>), Str(<<"A">>),
            <<Environment(Num(42), Str(<<"e", "1">>), Str(<<"s">>),
                          Undefined, Undefined)>>)
ProjectB ==
    Project(Num(2), Str(<<"p", "2">>), Str(<<"B">>),
            <<Environment(Num(43), Str(<<"e", "2">>), Str(<<"s">>),
                          Undefined, Undefined)>>)
ProjectC ==
    Project(Num(3), Undefined, Str(<<"C">>),
            <<Environment(Num(44), Str(<<"e", "3">>), Str(<<"t">>),
                          Undefined, Undefined)>>)

\* the project of the end-to-end scenario
ProjectDemo ==
    Project(Num(1), Str(<<"p", "1">>), Str(<<"D", "e", "m", "o">>),
            <<Environment(Num(10), Str(<<"e", "1">>),
                          Str(<<"p", "r", "o", "d", "u", "c", "t", "i", "o", "n">>),
                          Undefined, Undefined)>>)

ProjectLists ==
    {<<>>, <<ProjectA>>, <<ProjectA, ProjectB>>, <<ProjectB, ProjectC>>,
     <<ProjectDemo>>}

\* applications that refer to their environment by number, by padded
\* string, by uuid, not at all, and by string
ApplicationPool ==
    << Application(Num(100), Str(<<"a", "1">>), Str(<<"w", "e", "b">>),
                   Str(<<"w", "e", "b", ".", "e", "x", "a", "m", "p", "l", "e", ".", "c", "o", "m">>),
                   Num(42), Undefined),
       Application(Num(101), Str(<<"a", "2">>), Str(<<"a", "p", "i">>),
                   Undefined, Str(<<" ", "4", "2", " ">>), Undefined),
       Application(Num(102), Str(<<"a", "3">>), Undefined,
                   Str(<<" ", ",", "x">>), Undefined, Str(<<"e", "2">>)),
       Application(Num(103), Undefined, Str(<<"j", "o", "b">>),
                   Undefined, Undefined, Undefined),
       Application(Num(104), Str(<<"a", "5">>), Str(<<"c", "r", "o", "n">>),
                   Str(<<"h", "t", "t", "p", ":", "/", "/", "c">>), Str(<<"4", "2">>), Undefined),
       \* the application of the end-to-end scenario
       Application(Num(100), Str(<<"a", "1">>), Str(<<"w", "e", "b">>),
                   Str(<<"w", "e", "b", ".", "e", "x", "a", "m", "p", "l", "e", ".", "c", "o", "m">>),
                   Num(10), Undefined) >>

\* the elements of pool at the positions in chosen, in the order of pool
RECURSIVE Pick(_, _)
Pick(pool, chosen) ==
    IF chosen = {} THEN <<>>
    ELSE LET i == CHOOSE i \in chosen : \A j \in chosen : i <= j
         IN  <<pool[i]>> \o Pick(pool, chosen \ {i})

ApplicationLists ==
    {Pick(ApplicationPool, chosen) :
        chosen \in {c \in SUBSET (1..Len(ApplicationPool)) :
                       Cardinality(c) <= MaxApplications}}

ServiceLists ==
    {<<>>,
     <<Service(Num(201), Str(<<"s", "2">>), Undefined,
               Undefined, Str(<<"e", "1">>)),
       Service(Num(200), Str(<<"s", "1">>), Str(<<"m", "q">>),
               Num(43), Undefined)>>}

DatabaseLists ==
    {<<>>,
     <<Database(Num(300), Str(<<"b", "1">>), Undefined,
                Undefined, Str(<<"e", "1">>))>>}

\* a deployment known by its application only, one with its own environment
\* only, one with both, one with neither
\* a deployment with its creation date and the name of its application
Created(deployment, date, name) ==
    [deployment EXCEPT !.created_at = Str(date), !.application_name = name]

DeploymentLists ==
    {<<>>,
     <<Deployment(Num(1), Str(<<"r", "u", "n", "n", "i", "n", "g">>),
                  Undefined, Str(<<"a", "1">>), Undefined,
                  Undefined, Undefined)>>,
     <<Created(Deployment(Num(2), Str(<<"I", "n", " ", "P", "r", "o", "g", "r", "e", "s", "s">>),
                          Undefined, Undefined, Undefined, Num(43), Undefined),
               <<"2", "0", "2", "4", "-", "0", "1", "-", "0", "2">>, Undefined),
       Created(Deployment(Num(3), Str(<<"f", "a", "i", "l", "e", "d">>),
                          Str(<<"a", "3">>), Undefined, Num(102),
                          Num(42), Undefined),
               <<"2", "0", "2", "4", "-", "0", "1", "-", "1", "0">>,
               Str(<<"w", "e", "b">>))>>,
     <<Deployment(Num(4), Undefined, Undefined, Undefined, Num(100),
                  Undefined, Str(<<"e", "2">>)),
       Deployment(Num(5), Str(<<"q", "u", "e", "u", "e", "d">>),
                  Undefined, Undefined, Undefined, Undefined, Undefined)>>}

FilterProjectIds == {<<"1">>, <<"2">>}
FilterEnvNames == {<<"s">>, <<"z">>}

\* the values the dropdowns can hand to setFilterValue
FilterValues ==
    {FilterAll, FilterStatusActive, TypePrefix \o TypeService}
        \cup {ProjectPrefix \o id : id \in FilterProjectIds}
        \cup {EnvPrefix \o name : name \in FilterEnvNames}

InitFilterVars ==
    /\ applications = <<>>
    /\ services = <<>>
    /\ databases = <<>>
    /\ deployments = <<>>
    /\ filterValue = FilterAll
    /\ resources = buildResources(<<>>, <<>>, <<>>)
    /\ withFilterResources = <<>>
    /\ withFilterApplications = <<>>
    /\ withFilterServices = <<>>
    /\ withFilterDatabases = <<>>
    /\ withFilterDeployments = <<>>
    /\ searchText = <<>>

Render_StaleMaps ==
    /\ resources' = buildResources(applications', services', databases')
    /\ withFilterResources' =
          applyFilter_Resources(resources', filterValue', envToProjectMap,
                                envNameToIds)
    /\ withFilterApplications' =
          applyFilter_Applications(applications', filterValue',
                                   envToProjectMap',
                                   Cardinality(DOMAIN envToProjectMap') > 0,
                                   envNameToIds')
    /\ withFilterServices' =
          applyFilter_Services(services', filterValue', envToProjectMap',
                               envNameToIds')
    /\ withFilterDatabases' =
          applyFilter_Databases(databases', filterValue', envToProjectMap',
                                envNameToIds')
    /\ withFilterDeployments' =
          applyFilter_Deployments(deployments', filterValue', envToProjectMap',
                                  envNameToIds', appIdToEnvId(applications'))

\* the memos every view recomputes when one of their inputs changed
Render ==
    /\ resources' = buildResources(applications', services', databases')
    /\ withFilterResources' =
          applyFilter_Resources(resources', filterValue', envToProjectMap',
                                envNameToIds')
    /\ withFilterApplications' =
          applyFilter_Applications(applications', filterValue',
                                   envToProjectMap',
                                   Cardinality(DOMAIN envToProjectMap') > 0,
                                   envNameToIds')
    /\ withFilterServices' =
          applyFilter_Services(services', filterValue', envToProjectMap',
                               envNameToIds')
    /\ withFilterDatabases' =
          applyFilter_Databases(databases', filterValue', envToProjectMap',
                                envNameToIds')
    /\ withFilterDeployments' =
          applyFilter_Deployments(deployments', filterValue', envToProjectMap',
                                  envNameToIds', appIdToEnvId(applications'))

\* the memos behind what the views display, as functions of the state
filteredResources == searchResources(withFilterResources, searchText)
groupedResources == groupResources(filteredResources, envLookup, envNameMap)
filteredDeployments == searchDeployments(withFilterDeployments, searchText)

\* the projects and their environments were fetched; the maps are rebuilt
EnvironmentsFetched ==
    /\ \E payload \in ProjectLists :
          /\ projects' = payload
          /\ environments' = fetchProjectEnvironments(payload)
    /\ envToProjectMap' = buildEnvToProjectMap(environments')
    /\ envNameMap' = buildEnvNameMap(environments')
    /\ envLookup' = buildEnvLookup(environments')
    /\ envNameToIds' = buildEnvNameToIdsMap(environments')
    /\ UNCHANGED <<applications, services, databases, deployments, filterValue>>
    /\ UNCHANGED searchText
    /\ Render
    /\ UNCHANGED <<idVars, listVars, callVars>>

ApplicationsFetched ==
    /\ \E list \in ApplicationLists : applications' = list
    /\ UNCHANGED <<services, databases, deployments, filterValue, envVars>>
    /\ UNCHANGED searchText
    /\ Render
    /\ UNCHANGED <<idVars, listVars, callVars>>

ServicesFetched ==
    /\ \E list \in ServiceLists : services' = list
    /\ UNCHANGED <<applications, databases, deployments, filterValue, envVars>>
    /\ UNCHANGED searchText
    /\ Render
    /\ UNCHANGED <<idVars, listVars, callVars>>

DatabasesFetched ==
    /\ \E list \in DatabaseLists : databases' = list
    /\ UNCHANGED <<applications, services, deployments, filterValue, envVars>>
    /\ UNCHANGED searchText
    /\ Render
    /\ UNCHANGED <<idVars, listVars, callVars>>

DeploymentsFetched ==
    /\ \E list \in DeploymentLists : deployments' = list
    /\ UNCHANGED <<applications, services, databases, filterValue, envVars>>
    /\ UNCHANGED searchText
    /\ Render
    /\ UNCHANGED <<idVars, listVars, callVars>>

\* onChange of the dropdown: setFilterValue
FilterChanged ==
    /\ \E value \in FilterValues : filterValue' = value
    /\ UNCHANGED <<applications, services, databases, deployments, envVars>>
    /\ UNCHANGED searchText
    /\ Render
    /\ UNCHANGED <<idVars, listVars, callVars>>

SearchTexts == {<<>>, <<" ">>, <<" ", "W", "e">>}

\* onSearchTextChange of the search bar: setSearchText
SearchTextChanged ==
    /\ \E text \in SearchTexts : searchText' = text
    /\ UNCHANGED <<applications, services, databases, deployments, filterValue,
                   envVars>>
    /\ Render
    /\ UNCHANGED <<idVars, listVars, callVars>>

NextFilter ==
    \/ EnvironmentsFetched
    \/ ApplicationsFetched
    \/ ServicesFetched
    \/ DatabasesFetched
    \/ DeploymentsFetched
    \/ FilterChanged

\* the unified resources view
NextResources ==
    \/ EnvironmentsFetched
    \/ ApplicationsFetched
    \/ ServicesFetched
    \/ DatabasesFetched
    \/ FilterChanged
    \/ SearchTextChanged

\* the deployments view
NextDeployments ==
    \/ EnvironmentsFetched
    \/ ApplicationsFetched
    \/ DeploymentsFetched
    \/ FilterChanged
    \/ SearchTextChanged

-----------------------------------------------------------------------------
(* Inputs of the status:active selector *)

MaxSeparator == 2
SeparatorChars == {" ", "\t", "-", "_"}

\* the two words of in_progress in three spellings, joined by a separator
ProgressStatuses ==
    {first \o separator \o second :
        first \in {<<"i", "n">>, <<"I", "n">>, <<"I", "N">>},
        separator \in StringsUpTo(SeparatorChars, MaxSeparator),
        second \in {<<"p", "r", "o", "g", "r", "e", "s", "s">>, <<"P", "r", "o", "g", "r", "e", "s", "s">>, <<"P", "R", "O", "G", "R", "E", "S", "S">>}}

StatusInputs ==
    {Undefined, Str(<<>>)}
        \cup {Str(x) : x \in ProgressStatuses}
        \cup {Str(x) : x \in {<<"r", "u", "n", "n", "i", "n", "g">>, <<"Q", "u", "e", "u", "e", "d">>, <<"P", "E", "N", "D", "I", "N", "G">>,
                              <<"D", "e", "p", "l", "o", "y", "i", "n", "g">>, <<"b", "u", "i", "l", "d", "i", "n", "g">>, <<"f", "a", "i", "l", "e", "d">>,
                              <<"f", "i", "n", "i", "s", "h", "e", "d">>, <<"r", "u", "n", "-", "n", "i", "n", "g">>, <<" ", "q", "u", "e", "u", "e", "d">>}}

InitStatusVars ==
    /\ statusArg = Undefined
    /\ statusRet = normalizeStatus(Undefined)
    /\ statusActive = <<>>

\* the deployments view filters one deployment of some status with the
\* selector status:active
StatusFiltered ==
    /\ \E status \in StatusInputs :
          LET deployment == Deployment(Num(1), status, Undefined, Undefined,
                                       Undefined, Undefined, Undefined)
          IN  /\ statusArg' = status
              /\ statusRet' = normalizeStatus(status)
              /\ statusActive' =
                    applyFilter_Deployments(<<deployment>>, FilterStatusActive,
                                            EmptyMap, EmptyMap, EmptyMap)
    /\ UNCHANGED <<idVars, envVars, listVars, filterVars, urlVars, primaryVars>>
    /\ UNCHANGED processVars

NextStatus == StatusFiltered

-----------------------------------------------------------------------------
(* Inputs of the URL resolvers *)

MaxSlashes == 2

\* an instance URL with up to MaxSlashes trailing slashes, or none at all
InstanceUrls ==
    {<<>>} \cup {<<"h", "t", "t", "p", "s", ":", "/", "/", "h">> \o [i \in 1..k |-> "/"] : k \in 0..MaxSlashes}

\* an identifier: absent, null, empty or a uuid
UuidInputs(uuid) == {Undefined, Null, Str(<<>>), Str(uuid)}

ResourceTypes == {TypeApplication, TypeService, TypeDatabase}

UrlArguments ==
    [instanceUrl : InstanceUrls,
     projectUuid : UuidInputs(<<"p", "1">>),
     environmentUuid : UuidInputs(<<"e", "1">>),
     resourceUuid : UuidInputs(<<"r", "1">>),
     deploymentUuid : {Undefined, Str(<<>>), Str(<<"d", "1">>)},
     type : ResourceTypes]

\* every resolver applied to one set of arguments
Resolved(a) ==
    [resources |->
        resolveResourceUrl(a.instanceUrl, a.projectUuid, a.environmentUuid,
                           a.resourceUuid, Str(a.type)),
     environmentResources |->
        resolveResourceUrl_EnvironmentResources(
            a.instanceUrl, a.projectUuid, a.environmentUuid, a.resourceUuid,
            Str(a.type)),
     applications |->
        resolveResourceUrl_Applications(a.instanceUrl, a.projectUuid,
                                        a.environmentUuid, a.resourceUuid),
     services |->
        resolveResourceUrl_Services(a.instanceUrl, a.projectUuid,
                                    a.environmentUuid, a.resourceUuid),
     databases |->
        resolveResourceUrl_Databases(a.instanceUrl, a.projectUuid,
                                     a.environmentUuid, a.resourceUuid),
     consoleLogs |->
        buildConsoleLogsUrl(a.instanceUrl, a.projectUuid, a.environmentUuid,
                            a.resourceUuid),
     coolifyLogs |->
        buildCoolifyLogsUrl(a.instanceUrl, a.projectUuid, a.environmentUuid,
                            a.resourceUuid),
     deployment |->
        buildCoolifyDeploymentUrl(a.instanceUrl, a.projectUuid,
                                  a.environmentUuid, a.resourceUuid,
                                  a.deploymentUuid)]

NoUrlArguments ==
    [instanceUrl |-> <<>>, projectUuid |-> Undefined,
     environmentUuid |-> Undefined, resourceUuid |-> Undefined,
     deploymentUuid |-> Undefined, type |-> TypeApplication]

InitUrlVars ==
    /\ urlArgs = NoUrlArguments
    /\ urlRets = Resolved(NoUrlArguments)

\* a view renders the links of one item
UrlsResolved ==
    /\ \E a \in UrlArguments :
          /\ urlArgs' = a
          /\ urlRets' = Resolved(a)
    /\ UNCHANGED <<idVars, envVars, listVars, filterVars, statusVars, primaryVars>>
    /\ UNCHANGED processVars

NextUrl == UrlsResolved

-----------------------------------------------------------------------------
(* Inputs of getPrimaryUrl *)

MaxPadding == 1

\* up to MaxPadding blanks
Paddings == {[i \in 1..k |-> " "] : k \in 0..MaxPadding}

\* what a first token can begin with: nothing, or a scheme
TokenSchemes ==
    {<<>>, Http, Https,
     <<"H", "T", "T", "P", "S", ":", "/", "/">>,
     <<"f", "t", "p", ":", "/", "/">>}

TokenHosts == {<<>>, <<"h">>, <<"a", ".", "b">>}

\* what follows the first token
TokenTails == {<<>>, <<",">>, <<",", "x">>, <<",", " ", "h", "t", "t", "p", "s", ":", "/", "/", "y">>}

FqdnInputs ==
    {Undefined, Null}
        \cup {Str(before \o scheme \o host \o after \o rest) :
                 before \in Paddings, scheme \in TokenSchemes,
                 host \in TokenHosts, after \in Paddings,
                 rest \in TokenTails}

PrimaryUrls(fqdn) ==
    [resources |-> getPrimaryUrl([fqdn |-> fqdn]),
     applications |-> getPrimaryUrl_Applications([fqdn |-> fqdn])]

InitPrimaryVars ==
    /\ fqdnArg = Undefined
    /\ primaryUrls = PrimaryUrls(Undefined)

\* a view derives the primary URL of one application
PrimaryUrlDerived ==
    /\ \E fqdn \in FqdnInputs :
          /\ fqdnArg' = fqdn
          /\ primaryUrls' = PrimaryUrls(fqdn)
    /\ UNCHANGED <<idVars, envVars, listVars, filterVars, statusVars, urlVars>>
    /\ UNCHANGED processVars

NextPrimaryUrl == PrimaryUrlDerived

-----------------------------------------------------------------------------
(* Inputs and steps of the deployments fetch *)

MaxFetchApps == 3
MaxResponseRows == 120

FetchUuidPool == <<<<"a", "2">>, <<"a", "1">>, <<"a", "3">>, <<"a", "4">>>>

\* the values of filteredAppUuids: the first k uuids of the pool
FetchUuidLists == {SubSeq(FetchUuidPool, 1, k) : k \in 0..MaxFetchApps}

\* n deployment rows
DeploymentRows(n) ==
    [k \in 1..n |-> [id |-> Num(k), source_app_uuid |-> Undefined]]

\* the bodies a deployments request can resolve with: arrays of no, one and
\* many rows, an object that wraps its rows, and no list at all
FetchBodies ==
    {Arr(DeploymentRows(n)) : n \in {0, 1, MaxResponseRows}}
        \cup {Obj(Undefined, Arr(DeploymentRows(2)), Undefined), Null}

InitFetchVars ==
    /\ fetchUuids = <<>>
    /\ fetchPc = "idle"
    /\ fetchIndex = 0
    /\ fetchAll = <<>>
    /\ inFlight = <<>>
    /\ requestLog = <<>>
    /\ responseLog = <<>>
    /\ fetchedDeployments = <<>>

FetchFrame ==
    UNCHANGED <<idVars, envVars, listVars, filterVars, statusVars, urlVars,
                primaryVars, fanVars, gateVars, formVars>>

\* useCachedPromise calls the async function: on mount and whenever
\* filteredAppUuids.join("|") changed; the abortable controller aborts the
\* request the previous call still waits for
FetchStarted ==
    /\ \E uuids \in FetchUuidLists :
          /\ fetchPc = "idle" \/ uuids # fetchUuids
          /\ fetchUuids' = uuids
          /\ IF Len(uuids) = 0
             THEN /\ fetchPc' = "global"
                  /\ fetchIndex' = 0
                  /\ inFlight' = <<GlobalRequest>>
                  /\ requestLog' = <<>>
             ELSE /\ fetchPc' = "application"
                  /\ fetchIndex' = 1
                  /\ LET next == NextSubRequests(uuids, 1)
                     IN  /\ inFlight' = next
                         /\ requestLog' =
                               [k \in 1..Len(next) |-> next[k].uuid]
    /\ fetchAll' = <<>>
    /\ responseLog' = <<>>
    /\ UNCHANGED fetchedDeployments
    /\ FetchFrame

\* no application to ask: the answer to GET /deployments, cut at the cap
GlobalResponded ==
    /\ fetchPc = "global"
    /\ \E body \in FetchBodies :
          fetchedDeployments' = Slice(normalizeList(body), DeploymentCap)
    /\ fetchPc' = "done"
    /\ inFlight' = <<>>
    /\ UNCHANGED <<fetchUuids, fetchIndex, fetchAll, requestLog, responseLog>>
    /\ FetchFrame

\* the answer to the sub-request of appUuids[i]: its rows are pushed, then
\* the loop ends (cap reached or list exhausted) or sends the next request
SubRequestResponded ==
    /\ fetchPc = "application"
    /\ inFlight # <<>>
    /\ \E body \in FetchBodies :
          fetchAll' = fetchAll \o StampRows(normalizeList(body), Head(inFlight).uuid)
    /\ responseLog' = Append(responseLog, Head(inFlight).uuid)
    /\ IF Len(fetchAll') >= DeploymentCap
             \/ fetchIndex + batchSize > Len(fetchUuids)
       THEN /\ UNCHANGED <<fetchIndex, requestLog>>
            /\ IF Len(fetchAll') > 0
               THEN /\ fetchedDeployments' = fetchAll'
                    /\ fetchPc' = "done"
                    /\ inFlight' = Tail(inFlight)
               ELSE /\ UNCHANGED fetchedDeployments
                    /\ fetchPc' = "fallback"
                    /\ inFlight' = Tail(inFlight) \o <<GlobalRequest>>
       ELSE /\ fetchIndex' = fetchIndex + batchSize
            /\ LET next == NextSubRequests(fetchUuids, fetchIndex')
               IN  /\ inFlight' = Tail(inFlight) \o next
                   /\ requestLog' =
                         requestLog \o [k \in 1..Len(next) |-> next[k].uuid]
            /\ fetchPc' = "application"
            /\ UNCHANGED fetchedDeployments
    /\ UNCHANGED fetchUuids
    /\ FetchFrame

\* no application had a deployment: the answer to the fallback request
FallbackResponded ==
    /\ fetchPc = "fallback"
    /\ \E body \in FetchBodies :
          fetchedDeployments' = Slice(normalizeList(body), DeploymentCap)
    /\ fetchPc' = "done"
    /\ inFlight' = <<>>
    /\ UNCHANGED <<fetchUuids, fetchIndex, fetchAll, requestLog, responseLog>>
    /\ FetchFrame

\* requestJson throws (network error or a response that is not ok): the
\* call rejects and keepPreviousData leaves data as it was
RequestFailed ==
    /\ fetchPc \in {"global", "application", "fallback"}
    /\ fetchPc' = "failed"
    /\ inFlight' = <<>>
    /\ UNCHANGED <<fetchUuids, fetchIndex, fetchAll, requestLog, responseLog,
                   fetchedDeployments>>
    /\ FetchFrame

NextFetch ==
    \/ FetchStarted
    \/ GlobalResponded
    \/ SubRequestResponded
    \/ FallbackResponded
    \/ RequestFailed

-----------------------------------------------------------------------------
(* The fan-out of fetchProjectEnvironments: one request per project *)

MaxFanOut == 2

\* a project whose numeric id is 0, and one whose id is a padded string
ProjectZero ==
    Project(Num(0), Str(<<"p", "0">>), Str(<<"Z">>),
            <<Environment(Num(45), Str(<<"e", "5">>), Str(<<"s">>),
                          Undefined, Undefined)>>)
ProjectPadded ==
    Project(Str(<<" ", "5", " ">>), Str(<<"p", "5">>), Str(<<"P">>),
            <<Environment(Num(46), Str(<<"e", "6">>), Str(<<"t">>),
                          Undefined, Undefined)>>)

FanOutPool ==
    {ProjectA, ProjectB, ProjectC, ProjectDemo, ProjectZero, ProjectPadded}

\* the project lists of a call: up to MaxFanOut projects
RECURSIVE ProjectListsUpTo(_)
ProjectListsUpTo(k) ==
    IF k = 0 THEN {<<>>}
    ELSE LET shorter == ProjectListsUpTo(k - 1)
         IN  shorter \cup {Append(list, project) :
                              list \in shorter, project \in FanOutPool}

InitFanVars ==
    /\ fanProjects = <<>>
    /\ fanPending = {}
    /\ fanFailed = {}
    /\ fanStatus = "idle"
    /\ fanEnvironments = <<>>

FanFrame ==
    UNCHANGED <<idVars, envVars, listVars, filterVars, statusVars, urlVars,
                primaryVars, fetchVars, gateVars, formVars>>

\* the view calls fetchProjectEnvironments(projects): one request per
\* project with a uuid, all sent at once; without any request the result
\* is []
FanOutStarted ==
    /\ fanPending = {}
    /\ \E payload \in ProjectListsUpTo(MaxFanOut) :
          LET requests == {i \in 1..Len(payload) :
                              Truthy(Coalesce(payload[i].uuid, Str(<<>>)))}
          IN  /\ fanProjects' = payload
              /\ fanPending' = requests
              /\ IF requests = {}
                 THEN fanStatus' = "resolved" /\ fanEnvironments' = <<>>
                 ELSE fanStatus' = "pending" /\ UNCHANGED fanEnvironments
    /\ fanFailed' = {}
    /\ FanFrame

\* the request of one project resolved; Promise.all resolves with the last
\* of them, to the results in the order of the projects, flattened
ProjectRequestResolved ==
    /\ \E i \in fanPending :
          /\ fanPending' = fanPending \ {i}
          /\ IF fanStatus = "pending" /\ fanPending' = {}
             THEN /\ fanStatus' = "resolved"
                  /\ fanEnvironments' = fetchProjectEnvironments(fanProjects)
             ELSE UNCHANGED <<fanStatus, fanEnvironments>>
    /\ UNCHANGED <<fanProjects, fanFailed>>
    /\ FanFrame

\* the request of one project was rejected (requestJson threw): Promise.all
\* rejects with the first rejection and data keeps its previous value
ProjectRequestRejected ==
    /\ \E i \in fanPending :
          /\ fanPending' = fanPending \ {i}
          /\ fanFailed' = fanFailed \cup {i}
    /\ fanStatus' = IF fanStatus = "pending" THEN "rejected" ELSE fanStatus
    /\ UNCHANGED <<fanProjects, fanEnvironments>>
    /\ FanFrame

NextFanOut ==
    \/ FanOutStarted
    \/ ProjectRequestResolved
    \/ ProjectRequestRejected

-----------------------------------------------------------------------------
(* Inputs and steps of the token gate *)

GateApiUrls ==
    {Undefined, Str(<<>>), Str(<<"h", "t", "t", "p", "s", ":", "/", "/", "h">>), Str(<<"h", "t", "t", "p", "s", ":", "/", "/", "h", "/">>),
     Str(<<"h", "t", "t", "p", "s", ":", "/", "/", "h", "/", "a", "p", "i", "/", "v", "1">>), Str(<<" ", "h", "t", "t", "p", "s", ":", "/", "/", "h", "/", "a", "p", "i", "/", "v", "1", "/", " ">>)}

GateApiTokens ==
    {Undefined, Str(<<>>), Str(<<" ">>), Str(<<"t">>), Str(<<" ", "t", " ">>)}

GatePreferences == [apiUrl : GateApiUrls, apiToken : GateApiTokens]

\* the status codes of a response that is not ok
FailureStatuses == {401, 403, 500}

NetworkError == Str(<<"f", "e", "t", "c", "h", " ", "f", "a", "i", "l", "e", "d">>)

InitGateVars ==
    /\ gatePrefs = [apiUrl |-> Undefined, apiToken |-> Undefined]
    /\ gatePc = "unmounted"
    /\ gateLoading = FALSE
    /\ gateError = Undefined
    /\ gateRequests = <<>>
    /\ gateView = "none"

GateFrame ==
    UNCHANGED <<idVars, envVars, listVars, filterVars, statusVars, urlVars,
                primaryVars, fetchVars, fanVars, formVars>>

\* a command is launched: WithValidToken mounts and usePromise starts with
\* isLoading set
GateMounted ==
    /\ gatePc \in {"unmounted", "valid", "invalid"}
    /\ \E prefs \in GatePreferences : gatePrefs' = prefs
    /\ gatePc' = "started"
    /\ gateLoading' = TRUE
    /\ gateError' = Undefined
    /\ gateRequests' = <<>>
    /\ gateView' = GateView(gateLoading', gateError')
    /\ GateFrame

\* isValidToken runs up to its await: it throws without a token, else it
\* sends GET /projects
ValidationCalled ==
    /\ gatePc = "started"
    /\ LET token == GateToken(gatePrefs.apiToken)
       IN  IF token = <<>>
           THEN /\ gatePc' = "invalid"
                /\ gateLoading' = FALSE
                /\ gateError' = MissingApiToken
                /\ UNCHANGED gateRequests
           ELSE /\ gatePc' = "requesting"
                /\ gateRequests' =
                      Append(gateRequests,
                             ProjectsRequest(gatePrefs.apiUrl, token))
                /\ UNCHANGED <<gateLoading, gateError>>
    /\ gateView' = GateView(gateLoading', gateError')
    /\ UNCHANGED gatePrefs
    /\ GateFrame

\* the response is ok: isValidToken returns true
ValidationResolved ==
    /\ gatePc = "requesting"
    /\ gatePc' = "valid"
    /\ gateLoading' = FALSE
    /\ gateError' = Undefined
    /\ gateView' = GateView(gateLoading', gateError')
    /\ UNCHANGED <<gatePrefs, gateRequests>>
    /\ GateFrame

\* fetch failed or the response is not ok: requestJson throws
ValidationRejected ==
    /\ gatePc = "requesting"
    /\ \E error \in {NetworkError} \cup {ApiError(k) : k \in FailureStatuses} :
          gateError' = error
    /\ gatePc' = "invalid"
    /\ gateLoading' = FALSE
    /\ gateView' = GateView(gateLoading', gateError')
    /\ UNCHANGED <<gatePrefs, gateRequests>>
    /\ GateFrame

NextGate ==
    \/ GateMounted
    \/ ValidationCalled
    \/ ValidationResolved
    \/ ValidationRejected

-----------------------------------------------------------------------------
(* The mutation forms: one form is open at a time, and its onSubmit
   handler runs from the submit to its finally block *)

MaxPayloadLen == 3
MaxAttempts == 2

PayloadChars == {"[", "]", ",", "1", " "}

\* what the user leaves in the payload field of the bulk form
Payloads == StringsUpTo(PayloadChars, MaxPayloadLen)

DeleteValues ==
    [delete_volumes : BOOLEAN, delete_connected_networks : BOOLEAN,
     delete_configurations : BOOLEAN, docker_cleanup : BOOLEAN]

EnvVarResources ==
    { [type |-> "application", uuid |-> <<"a", "1">>],
      [type |-> "service", uuid |-> <<"s", "1">>] }

\* the forms as their parents mount them
FormProps ==
    [form : {"DeleteResourceForm"}, resourceType : {<<"a", "p", "p", "l", "i", "c", "a", "t", "i", "o", "n">>},
     uuid : {<<"a", "1">>}, values : DeleteValues, onDeleted : BOOLEAN]
    \cup [form : {"EnvVarForm"}, resource : EnvVarResources,
          isEdit : BOOLEAN]
    \cup [form : {"BulkEnvVarForm"}, resource : EnvVarResources]
    \cup [form : {"CreateServerForm"}]

\* a form and its payload field: initialValues has "[]", and only the bulk
\* form shows the field
FilledForms ==
    {<<props, IF props.form = "BulkEnvVarForm" THEN payload
              ELSE <<"[", "]">> >> : props \in FormProps, payload \in Payloads}

InitFormVars ==
    /\ formProps = [form |-> "CreateServerForm"]
    /\ formPayload = <<"[", "]">>
    /\ formPc = "closed"
    /\ isSubmitting = FALSE
    /\ formRequests = <<>>
    /\ formAttempts = 0
    /\ requestSucceeded = FALSE
    /\ refreshed = FALSE
    /\ popped = FALSE

FormFrame ==
    UNCHANGED <<idVars, envVars, listVars, filterVars, statusVars, urlVars,
                primaryVars, fetchVars, fanVars, gateVars>>

\* a form is pushed and the user fills it in: useState(false)
FormOpened ==
    /\ formPc \in {"closed", "finished"}
    /\ \E filled \in FilledForms :
          /\ formProps' = filled[1]
          /\ formPayload' = filled[2]
    /\ formPc' = "open"
    /\ isSubmitting' = FALSE
    /\ formRequests' = <<>>
    /\ formAttempts' = 0
    /\ requestSucceeded' = FALSE
    /\ refreshed' = FALSE
    /\ popped' = FALSE
    /\ FormFrame

\* onSubmit up to its first await: setIsSubmitting(true), then the request,
\* or the failure toast of the catch block when JSON.parse threw
FormSubmitted ==
    /\ formPc \in {"open", "finished"}
    /\ ~popped
    /\ formAttempts < MaxAttempts
    /\ formAttempts' = formAttempts + 1
    /\ isSubmitting' = TRUE
    /\ IF ReachesRequest(formProps, formPayload)
       THEN /\ formRequests' =
                  Append(formRequests, FormRequest(formProps, formPayload))
            /\ formPc' = "requesting"
       ELSE /\ formPc' = "failure-toast"
            /\ UNCHANGED formRequests
    /\ UNCHANGED <<formProps, formPayload, requestSucceeded, refreshed,
                   popped>>
    /\ FormFrame

\* the response is ok: requestJson returns and the success toast is shown
FormRequestResolved ==
    /\ formPc = "requesting"
    /\ formPc' = "success-toast"
    /\ requestSucceeded' = TRUE
    /\ UNCHANGED <<formProps, formPayload, isSubmitting, formRequests,
                   formAttempts, refreshed, popped>>
    /\ FormFrame

\* as FormRequestRejected, were a response that is not ok no error
FormRequestRejected_Swallowed ==
    /\ formPc = "requesting"
    /\ formPc' = "success-toast"
    /\ UNCHANGED <<formProps, formPayload, isSubmitting, formRequests,
                   formAttempts, requestSucceeded, refreshed, popped>>
    /\ FormFrame

\* fetch failed or the response is not ok: requestJson throws and the catch
\* block shows the failure toast
FormRequestRejected ==
    /\ formPc = "requesting"
    /\ formPc' = "failure-toast"
    /\ UNCHANGED <<formProps, formPayload, isSubmitting, formRequests,
                   formAttempts, requestSucceeded, refreshed, popped>>
    /\ FormFrame

\* behind the success toast: the parent callback, pop(), and the finally
\* block
SuccessToastShown ==
    /\ formPc = "success-toast"
    /\ refreshed' = CallsBack(formProps)
    /\ popped' = TRUE
    /\ isSubmitting' = FALSE
    /\ formPc' = "finished"
    /\ UNCHANGED <<formProps, formPayload, formRequests, formAttempts,
                   requestSucceeded>>
    /\ FormFrame

\* behind the failure toast: the finally block
FailureToastShown ==
    /\ formPc = "failure-toast"
    /\ isSubmitting' = FALSE
    /\ formPc' = "finished"
    /\ UNCHANGED <<formProps, formPayload, formRequests, formAttempts,
                   requestSucceeded, refreshed, popped>>
    /\ FormFrame

NextForm ==
    \/ FormOpened
    \/ FormSubmitted
    \/ FormRequestResolved
    \/ FormRequestRejected
    \/ SuccessToastShown
    \/ FailureToastShown

-----------------------------------------------------------------------------
(* Specifications: one per component, each over the whole state *)

\* every component starts from the freshly mounted, empty view
Init ==
    /\ InitIdVars
    /\ InitEnvVars
    /\ InitListVars
    /\ InitFilterVars
    /\ InitStatusVars
    /\ InitUrlVars
    /\ InitPrimaryVars
    /\ InitFetchVars
    /\ InitFanVars
    /\ InitGateVars
    /\ InitFormVars

SpecToId == Init /\ [][NextToId]_vars

SpecEnv == Init /\ [][NextEnv]_vars

SpecList == Init /\ [][NextList]_vars

SpecFilter == Init /\ [][NextFilter]_vars

SpecResources == Init /\ [][NextResources]_vars

SpecDeployments == Init /\ [][NextDeployments]_vars

SpecStatus == Init /\ [][NextStatus]_vars

SpecUrl == Init /\ [][NextUrl]_vars

SpecPrimaryUrl == Init /\ [][NextPrimaryUrl]_vars

SpecFetch == Init /\ [][NextFetch]_vars

SpecFanOut == Init /\ [][NextFanOut]_vars

SpecGate == Init /\ [][NextGate]_vars

SpecForm == Init /\ [][NextForm]_vars

-----------------------------------------------------------------------------
(* C1 *)

IsBlank(x) == \A i \in 1..Len(x) : x[i] \in WhiteSpace

\* r is x without its leading and trailing white space
IsTrimOf(r, x) ==
    /\ r # <<>>
    /\ r[1] \notin WhiteSpace
    /\ r[Len(r)] \notin WhiteSpace
    /\ \E i \in 1..Len(x) :
          /\ i + Len(r) - 1 <= Len(x)
          /\ SubSeq(x, i, i + Len(r) - 1) = r
          /\ IsBlank(SubSeq(x, 1, i - 1))
          /\ IsBlank(SubSeq(x, i + Len(r), Len(x)))

\* C1: toId returns null iff its input is undefined, null, or a value whose
\* string form is blank after trimming; for every other input it returns the
\* string form without its leading and trailing white space.
C1_ToIdNullIffAbsentOrBlank ==
    /\ (idRet = Null) <=> (Nullish(idArg) \/ IsBlank(String(idArg)))
    /\ idRet # Null => idRet.t = "string" /\ IsTrimOf(idRet.s, String(idArg))

\* a padded string was normalized to a shorter, non-null identifier
C1_Witness ==
    /\ idArg.t = "string"
    /\ idRet.t = "string"
    /\ Len(idRet.s) < Len(idArg.s)

-----------------------------------------------------------------------------
(* C3 - C7: the environment relationship builder *)

\* the identifier forms an environment has, normalized
Keys(env) ==
    {key.s : key \in {k \in {toId(env.id), toId(env.uuid)} : k # Null}}

\* the project id an environment resolves to, or Null
EnvProject(env) ==
    toId(Coalesce(Coalesce(env.projectId, env.project_uuid), env.project_id))

DisplayName(env) == Coalesce(env.name, Str(UnnamedEnvironment)).s

EnvIndexes == 1..Len(environments)

\* no environment after position i shares an identifier key with it
LastHolder(i) ==
    \A j \in EnvIndexes :
        j > i => Keys(environments[j]) \cap Keys(environments[i]) = {}

\* the same, among the environments that resolve to a project
LastProjectHolder(i) ==
    \A j \in EnvIndexes :
        (j > i /\ EnvProject(environments[j]) # Null)
            => Keys(environments[j]) \cap Keys(environments[i]) = {}

\* C3 as stated: for every environment with an id or a uuid, envLookup and
\* envToProjectMap hold an entry under each identifier form it has, and the
\* lookups by its id and by its uuid return the same record and project id.
C3_KeyedByBothForms_Original ==
    \A i \in EnvIndexes :
        LET env == environments[i]
        IN  /\ \A k \in Keys(env) :
                  MapHas(envLookup, k) /\ MapHas(envToProjectMap, k)
            /\ \A k1, k2 \in Keys(env) :
                  /\ envLookup[k1] = envLookup[k2]
                  /\ envToProjectMap[k1] = envToProjectMap[k2]

\* C3 as amended: envLookup holds an entry under each identifier form of
\* every environment, envToProjectMap does so for every environment that
\* resolves to a project, and for an environment whose keys no later
\* environment shares, the lookups by id and by uuid return that one record
\* and its project id.
C3_KeyedByBothForms ==
    \A i \in EnvIndexes :
        LET env == environments[i]
        IN  /\ \A k \in Keys(env) : MapHas(envLookup, k)
            /\ EnvProject(env) # Null
                  => \A k \in Keys(env) : MapHas(envToProjectMap, k)
            /\ LastHolder(i) => \A k \in Keys(env) : envLookup[k] = env
            /\ (EnvProject(env) # Null /\ LastProjectHolder(i))
                  => \A k \in Keys(env) :
                        envToProjectMap[k] = EnvProject(env).s

\* an environment with both forms is found under either, with its project
C3_Witness ==
    \E i \in EnvIndexes :
        LET env == environments[i]
        IN  /\ Cardinality(Keys(env)) = 2
            /\ EnvProject(env) # Null
            /\ \A k \in Keys(env) :
                  /\ MapHas(envLookup, k) /\ envLookup[k] = env
                  /\ MapHas(envToProjectMap, k)
                  /\ envToProjectMap[k] = EnvProject(env).s

IsPermutationOf(xs, ys) ==
    /\ Len(xs) = Len(ys)
    /\ \E f \in Permutations(1..Len(xs)) :
          \A i \in 1..Len(xs) : ys[i] = xs[f[i]]

\* environments that share a key carry the same value for the builder
NoLookupConflict(envs) ==
    \A i, j \in 1..Len(envs) :
        Keys(envs[i]) \cap Keys(envs[j]) # {} => envs[i] = envs[j]

NoNameConflict(envs) ==
    \A i, j \in 1..Len(envs) :
        Keys(envs[i]) \cap Keys(envs[j]) # {}
            => DisplayName(envs[i]) = DisplayName(envs[j])

NoProjectConflict(envs) ==
    \A i, j \in 1..Len(envs) :
        (/\ Keys(envs[i]) \cap Keys(envs[j]) # {}
         /\ EnvProject(envs[i]) # Null
         /\ EnvProject(envs[j]) # Null)
            => EnvProject(envs[i]) = EnvProject(envs[j])

\* C4 as stated: whenever the same environments arrive again, in the same or
\* in another order, each of the four builders returns the map it returned
\* before.
C4_OrderIndependent_Original ==
    [][IsPermutationOf(environments, environments')
          => /\ envToProjectMap' = envToProjectMap
             /\ envNameMap' = envNameMap
             /\ envLookup' = envLookup
             /\ envNameToIds' = envNameToIds]_vars

\* C4 as amended: rebuilding from the same sequence returns an equal map;
\* buildEnvNameToIdsMap returns the same map for every permutation; each of
\* the other three does so when the environments that share an identifier
\* key carry the same value for that builder.
C4_OrderIndependent ==
    [][IsPermutationOf(environments, environments')
          => /\ envNameToIds' = envNameToIds
             /\ NoProjectConflict(environments)
                   => envToProjectMap' = envToProjectMap
             /\ NoNameConflict(environments) => envNameMap' = envNameMap
             /\ NoLookupConflict(environments) => envLookup' = envLookup
             /\ environments' = environments
                   => /\ envToProjectMap' = envToProjectMap
                      /\ envNameMap' = envNameMap
                      /\ envLookup' = envLookup]_vars

\* two different environments of one display name, free of conflicts, were
\* folded into the maps: exchanging them is a proper permutation
C4_Witness ==
    /\ Len(environments) = 2
    /\ environments[1] # environments[2]
    /\ DisplayName(environments[1]) = DisplayName(environments[2])
    /\ Keys(environments[1]) # {}
    /\ Keys(environments[2]) # {}
    /\ NoLookupConflict(environments)
    /\ Cardinality(envNameToIds[DisplayName(environments[1])]) = 2

AllKeys == UNION {Keys(environments[i]) : i \in EnvIndexes}

\* the last environment in iteration order that has identifier key k
LastWithKey(k) ==
    environments[CHOOSE i \in EnvIndexes :
        /\ k \in Keys(environments[i])
        /\ \A j \in EnvIndexes : j > i => k \notin Keys(environments[j])]

\* the positions of the environments that have key k and resolve to a project
ProjectHolders(k) ==
    {i \in EnvIndexes :
        k \in Keys(environments[i]) /\ EnvProject(environments[i]) # Null}

Max(S) == CHOOSE x \in S : \A y \in S : y <= x

\* C5 as stated: under every identifier key, envLookup, envNameMap and
\* envToProjectMap store the value of the last environment in iteration
\* order that has the key.
C5_LastWriteWins_Original ==
    \A k \in AllKeys :
        LET later == LastWithKey(k)
        IN  /\ MapHas(envLookup, k) /\ envLookup[k] = later
            /\ MapHas(envNameMap, k) /\ envNameMap[k] = DisplayName(later)
            /\ MapHas(envToProjectMap, k)
                  => Str(envToProjectMap[k]) = EnvProject(later)

\* C5 as amended: envLookup and envNameMap store the value of the last
\* environment that has the key; envToProjectMap stores the project id of
\* the last environment that has the key and resolves to a project, and has
\* no entry when no environment with the key resolves to one.
C5_LastWriteWins ==
    \A k \in AllKeys :
        LET later == LastWithKey(k)
        IN  /\ MapHas(envLookup, k) /\ envLookup[k] = later
            /\ MapHas(envNameMap, k) /\ envNameMap[k] = DisplayName(later)
            /\ MapHas(envToProjectMap, k) <=> ProjectHolders(k) # {}
            /\ ProjectHolders(k) # {}
                  => Str(envToProjectMap[k])
                        = EnvProject(environments[Max(ProjectHolders(k))])

\* two environments share a key, differ in name and project, and the maps
\* hold the values of the later one
C5_Witness ==
    \E i, j \in EnvIndexes :
        LET a == environments[i]
            b == environments[j]
        IN  /\ i < j
            /\ EnvProject(a) # Null
            /\ EnvProject(b) # Null
            /\ EnvProject(a) # EnvProject(b)
            /\ DisplayName(a) # DisplayName(b)
            /\ \E k \in Keys(a) \cap Keys(b) :
                  /\ envLookup[k] = b
                  /\ envNameMap[k] = DisplayName(b)
                  /\ Str(envToProjectMap[k]) = EnvProject(b)

\* C6 as stated: environments with no resolvable id and no resolvable uuid
\* add nothing to any of the four maps, no map of the four has the empty or
\* a blank string as a key, and no id-set of envNameToIds is empty or has a
\* blank member.
C6_UnresolvableSkipped_Original ==
    /\ \A k \in DOMAIN envLookup \cup DOMAIN envNameMap
                  \cup DOMAIN envToProjectMap \cup DOMAIN envNameToIds :
          ~IsBlank(k)
    /\ \A name \in DOMAIN envNameToIds :
          /\ envNameToIds[name] # {}
          /\ \A member \in envNameToIds[name] : ~IsBlank(member)

\* C6 as amended: environments with no resolvable id and no resolvable uuid
\* add nothing to any of the four maps: the keys of the three
\* identifier-keyed maps are exactly the resolvable identifiers, none of
\* them empty or blank, and every id-set of envNameToIds is the non-empty
\* set of the identifiers of the environments of that display name, without
\* a blank member.  (envNameToIds itself is keyed by display name, which is
\* not normalized.)
C6_UnresolvableSkipped ==
    /\ DOMAIN envLookup = AllKeys
    /\ DOMAIN envNameMap = AllKeys
    /\ DOMAIN envToProjectMap \subseteq AllKeys
    /\ \A k \in DOMAIN envLookup \cup DOMAIN envNameMap
                  \cup DOMAIN envToProjectMap : ~IsBlank(k)
    /\ \A name \in DOMAIN envNameToIds :
          /\ envNameToIds[name] # {}
          /\ \A member \in envNameToIds[name] : ~IsBlank(member)
          /\ envNameToIds[name] =
                UNION {Keys(environments[i]) :
                          i \in {j \in EnvIndexes :
                                    DisplayName(environments[j]) = name}}
    /\ DOMAIN envNameToIds =
          {DisplayName(environments[i]) :
              i \in {j \in EnvIndexes : Keys(environments[j]) # {}}}

\* an environment whose id is a blank string and a keyed one were both folded
C6_Witness ==
    /\ \E i \in EnvIndexes :
          /\ Keys(environments[i]) = {}
          /\ environments[i].id.t = "string"
          /\ ~MapHas(envNameToIds, DisplayName(environments[i]))
    /\ DOMAIN envLookup # {}

\* the number of flattened environments contributed by the projects before
\* position i
Offset(i) == CountEnvs(SubSeq(projects, 1, i - 1))

\* C7: every flattened environment carries as projectId the normalized
\* identity of the project it was fetched under (its id, else its uuid),
\* whatever its own project_id / project_uuid say, and its own fields
\* (project_id, else project_uuid) only when the project has no identity;
\* buildEnvToProjectMap maps its identifier keys to that projectId.
C7_FetchContextFirst ==
    /\ Len(environments) = CountEnvs(projects)
    /\ \A i \in 1..Len(projects) :
          \A j \in 1..Len(projects[i].environments) :
              LET project == projects[i]
                  raw == project.environments[j]
                  env == environments[Offset(i) + j]
                  identity == toId(IF Nullish(project.id)
                                   THEN project.uuid ELSE project.id)
                  own == toId(IF Nullish(raw.project_id)
                              THEN raw.project_uuid ELSE raw.project_id)
              IN  /\ env.id = raw.id /\ env.uuid = raw.uuid
                  /\ env.name = raw.name
                  /\ identity # Null => env.projectId = identity
                  /\ (identity = Null /\ own # Null) => env.projectId = own
                  /\ (identity = Null /\ own = Null)
                        => env.projectId = Undefined
                  /\ (env.projectId # Undefined
                        /\ LastProjectHolder(Offset(i) + j))
                        => \A k \in Keys(env) :
                              /\ MapHas(envToProjectMap, k)
                              /\ Str(envToProjectMap[k]) = env.projectId

\* an environment that names another project in its own project_id was
\* joined to the project it was fetched under
C7_Witness ==
    \E i \in 1..Len(projects) :
        \E j \in 1..Len(projects[i].environments) :
            LET raw == projects[i].environments[j]
                env == environments[Offset(i) + j]
            IN  /\ toId(projects[i].id) # Null
                /\ toId(raw.project_id) # Null
                /\ toId(raw.project_id) # toId(projects[i].id)
                /\ env.projectId = toId(projects[i].id)
                /\ \E k \in Keys(env) :
                      Str(envToProjectMap[k]) = toId(projects[i].id)

-----------------------------------------------------------------------------
(* C8: the deployment shape normalizer *)

\* v.name, read as undefined on anything that is not a plain object
Property(v, name) == IF v.t = "object" THEN v[name] ELSE Undefined

\* the recognized places of the list, in priority order
Shapes(body) ==
    <<body,
      Property(body, "rows"),
      Property(body, "data"),
      Property(body, "deployments"),
      Property(Property(body, "data"), "rows"),
      Property(Property(body, "data"), "data")>>

FirstArray(body) ==
    LET found == {i \in 1..6 : IsArray(Shapes(body)[i])}
    IN  IF found = {} THEN <<>>
        ELSE Shapes(body)[CHOOSE i \in found : \A j \in found : i <= j].s

\* C8: normalizeList returns the first array among the response itself,
\* response.rows, .data, .deployments, .data.rows, .data.data, in this order,
\* and the empty list when none of them is an array; both copies agree.
C8_FirstMatchingShape ==
    /\ normalized = FirstArray(response)
    /\ normalizedApp = normalized

\* rows is present but no array, and the list sits two levels deep under
\* data.data
C8_Witness ==
    /\ response.t = "object"
    /\ response.rows = Str(<<"x">>)
    /\ IsArray(response.deployments) = FALSE
    /\ response.data.t = "object"
    /\ response.data.data = Arr(<<"d1", "d2">>)
    /\ ~IsArray(response.data.rows)
    /\ normalized = <<"d1", "d2">>

-----------------------------------------------------------------------------
(* C2, C9, C10: selectors of the filter engine *)

SelectedProject == Replace(filterValue, ProjectPrefix, <<>>)
SelectedEnvName == Replace(filterValue, EnvPrefix, <<>>)

\* result is exactly the items that satisfy In, in the order of items
Exactly(result, items, In(_)) ==
    LET kept == {i \in 1..Len(items) : In(items[i])}
    IN  /\ Len(result) = Cardinality(kept)
        /\ \A k \in 1..Len(result) :
              \E i \in kept :
                  /\ Cardinality({j \in kept : j <= i}) = k
                  /\ result[k] = items[i]

\* the environment id each view resolves for an item
ResourceEnvId(item) == item.environmentId.s
RecordEnvId(item) == String(Coalesce(item.environment_id, Str(<<>>)))
DeploymentEnvId(item) ==
    resolveEnvId(item, appIdToEnvId(applications), resolveAppKey(item))

InSelectedProject(envId) ==
    /\ envId \in DOMAIN envToProjectMap
    /\ envToProjectMap[envId] = SelectedProject

\* the raw records behind resources, position by position
RawResources == applications \o services \o databases

Shown(item) ==
    \E k \in 1..Len(withFilterResources) : withFilterResources[k] = item

\* C2: a resource whose environment reference, once normalized, is a key of
\* the lookup maps is resolved to that environment: project:<id> of that
\* environment's project and env:<name> of its name both show the resource.
C2_NormalizedBeforeLookup ==
    \A i \in 1..Len(resources) :
        LET key == toId(Coalesce(RawResources[i].environment_id,
                                 RawResources[i].environment_uuid))
        IN  Truthy(key) =>
              /\ ( /\ StartsWith(filterValue, ProjectPrefix)
                   /\ InSelectedProject(key.s) ) => Shown(resources[i])
              /\ ( /\ StartsWith(filterValue, EnvPrefix)
                   /\ SelectedEnvName \in DOMAIN envNameToIds
                   /\ key.s \in envNameToIds[SelectedEnvName] )
                    => Shown(resources[i])

\* C9 as stated: under project:<id> every view shows exactly the items whose
\* resolved environment id maps to <id>, whatever envToProjectMap is.
C9_ProjectSelector_Original ==
    StartsWith(filterValue, ProjectPrefix) =>
      /\ Exactly(withFilterResources, resources,
                 LAMBDA item : InSelectedProject(ResourceEnvId(item)))
      /\ Exactly(withFilterApplications, applications,
                 LAMBDA item : InSelectedProject(RecordEnvId(item)))
      /\ Exactly(withFilterServices, services,
                 LAMBDA item : InSelectedProject(RecordEnvId(item)))
      /\ Exactly(withFilterDatabases, databases,
                 LAMBDA item : InSelectedProject(RecordEnvId(item)))
      /\ Exactly(withFilterDeployments, deployments,
                 LAMBDA item : InSelectedProject(DeploymentEnvId(item)))

\* C9: under project:<id> the resources, services, databases and deployments
\* views show exactly the items whose resolved environment id maps to <id>;
\* the applications view does so when envToProjectMap has an entry and
\* shows every application when envToProjectMap is empty.
C9_ProjectSelector ==
    StartsWith(filterValue, ProjectPrefix) =>
      /\ Exactly(withFilterResources, resources,
                 LAMBDA item : InSelectedProject(ResourceEnvId(item)))
      /\ DOMAIN envToProjectMap # {} =>
            Exactly(withFilterApplications, applications,
                    LAMBDA item : InSelectedProject(RecordEnvId(item)))
      /\ DOMAIN envToProjectMap = {} => withFilterApplications = applications
      /\ Exactly(withFilterServices, services,
                 LAMBDA item : InSelectedProject(RecordEnvId(item)))
      /\ Exactly(withFilterDatabases, databases,
                 LAMBDA item : InSelectedProject(RecordEnvId(item)))
      /\ Exactly(withFilterDeployments, deployments,
                 LAMBDA item : InSelectedProject(DeploymentEnvId(item)))

\* project:1 with a populated map: some applications are kept and some are
\* dropped, and a deployment is attributed to the project
C9_Witness ==
    /\ filterValue = ProjectPrefix \o <<"1">>
    /\ DOMAIN envToProjectMap # {}
    /\ Len(withFilterApplications) > 0
    /\ Len(withFilterApplications) < Len(applications)
    /\ Len(withFilterResources) > 0
    /\ Len(withFilterDeployments) > 0

\* the ids and uuids of every environment displayed under name
IdsNamed(name) ==
    UNION {Keys(environments[i]) :
              i \in {j \in EnvIndexes : DisplayName(environments[j]) = name}}

InSelectedEnv(envId) ==
    /\ SelectedEnvName \in DOMAIN envNameToIds
    /\ envId \in envNameToIds[SelectedEnvName]

\* C10: under env:<name> a view shows exactly the items whose environment id
\* is in the id-set registered under <name>, which holds the ids and uuids
\* of every environment of that name across projects; a name without a
\* registered set shows nothing.
C10_EnvSelector ==
    StartsWith(filterValue, EnvPrefix) =>
      /\ Exactly(withFilterResources, resources,
                 LAMBDA item : InSelectedEnv(ResourceEnvId(item)))
      /\ Exactly(withFilterResources, resources,
                 LAMBDA item : ResourceEnvId(item) \in IdsNamed(SelectedEnvName))
      /\ SelectedEnvName \notin DOMAIN envNameToIds =>
            /\ withFilterResources = <<>>
            /\ withFilterApplications = <<>>
            /\ withFilterServices = <<>>
            /\ withFilterDatabases = <<>>
            /\ withFilterDeployments = <<>>
      /\ Exactly(withFilterApplications, applications,
                 LAMBDA item : InSelectedEnv(RecordEnvId(item)))
      /\ Exactly(withFilterServices, services,
                 LAMBDA item : InSelectedEnv(RecordEnvId(item)))
      /\ Exactly(withFilterDatabases, databases,
                 LAMBDA item : InSelectedEnv(RecordEnvId(item)))
      /\ Exactly(withFilterDeployments, deployments,
                 LAMBDA item : InSelectedEnv(DeploymentEnvId(item)))

\* two environments of one name in two projects, and env:<name> shows a
\* resource of each
C10_Witness ==
    /\ StartsWith(filterValue, EnvPrefix)
    /\ \E i \in EnvIndexes, j \in EnvIndexes :
          /\ DisplayName(environments[i]) = SelectedEnvName
          /\ DisplayName(environments[j]) = SelectedEnvName
          /\ environments[i].projectId # environments[j].projectId
          /\ \E a \in 1..Len(withFilterResources),
                b \in 1..Len(withFilterResources) :
                /\ ResourceEnvId(withFilterResources[a])
                      \in Keys(environments[i])
                /\ ResourceEnvId(withFilterResources[b])
                      \in Keys(environments[j])

-----------------------------------------------------------------------------
(* C11: the end-to-end scenario of the resources view *)

ScenarioApplication == ApplicationPool[6]

\* one project Demo with its environment production, one application web,
\* the selector project:1 and no search text
Scenario ==
    /\ projects = <<ProjectDemo>>
    /\ applications = <<ScenarioApplication>>
    /\ services = <<>>
    /\ databases = <<>>
    /\ filterValue = ProjectPrefix \o <<"1">>
    /\ searchText = <<>>

ScenarioUrl ==
    <<"h", "t", "t", "p", "s", ":", "/", "/", "i", "n", "s", "t", "a", "n",
      "c", "e", "/", "p", "r", "o", "j", "e", "c", "t", "/", "p", "1", "/",
      "e", "n", "v", "i", "r", "o", "n", "m", "e", "n", "t", "/", "e", "1",
      "/", "a", "p", "p", "l", "i", "c", "a", "t", "i", "o", "n", "/", "a",
      "1">>

\* C11: in the scenario the resources view displays exactly the application
\* web (id 100, uuid a1), and the link of that item is
\* https://instance/project/p1/environment/e1/application/a1.
C11_EndToEnd ==
    Scenario =>
      /\ Len(filteredResources) = 1
      /\ filteredResources[1] = AppItem(ScenarioApplication)
      /\ filteredResources[1].id = Str(<<"1", "0", "0">>)
      /\ filteredResources[1].uuid = Str(<<"a", "1">>)
      /\ filteredResources[1].name = Str(<<"w", "e", "b">>)
      /\ filteredResources[1].type = Str(TypeApplication)
      /\ RenderedResourceUrl(filteredResources[1], envLookup) = Str(ScenarioUrl)

C11_Witness ==
    /\ Scenario
    /\ Len(filteredResources) = 1
    /\ instanceUrl = <<"h", "t", "t", "p", "s", ":", "/", "/", "i", "n", "s", "t", "a", "n", "c", "e">>

-----------------------------------------------------------------------------
(* C12: the environment of a deployment *)

\* the application key: source_app_uuid, else application_uuid, else
\* application_id, as a string; the empty string when all are absent
ExpectedAppKey(deployment) ==
    IF ~Nullish(deployment.source_app_uuid)
    THEN String(deployment.source_app_uuid)
    ELSE IF ~Nullish(deployment.application_uuid)
    THEN String(deployment.application_uuid)
    ELSE IF ~Nullish(deployment.application_id)
    THEN String(deployment.application_id)
    ELSE <<>>

\* the positions of the applications known under key that have an
\* environment reference
AppsWithKey(key) ==
    {i \in 1..Len(applications) :
        /\ \/ ( /\ applications[i].id # Undefined
                /\ String(applications[i].id) = key )
           \/ ( /\ Truthy(applications[i].uuid)
                /\ String(applications[i].uuid) = key )
        /\ toId(Coalesce(applications[i].environment_id,
                         applications[i].environment_uuid)) # Null}

ExpectedEnvId(deployment) ==
    LET known == AppsWithKey(ExpectedAppKey(deployment))
        own == toId(Coalesce(deployment.environment_id,
                             deployment.environment_uuid))
    IN  IF known # {}
        THEN LET i == CHOOSE i \in known : \A j \in known : j <= i
             IN  toId(Coalesce(applications[i].environment_id,
                               applications[i].environment_uuid)).s
        ELSE IF own # Null THEN own.s
        ELSE <<>>

\* C12: the environment of a deployment is the one its application has in
\* the application -> environment map, the application key being
\* source_app_uuid, else application_uuid, else application_id; without an
\* entry it is the deployment's own normalized environment_id, else
\* environment_uuid; without any of them the empty string.  The selectors
\* project: and env: attribute deployments by this environment.
C12_DeploymentEnvironment ==
    /\ \A k \in 1..Len(deployments) :
          /\ resolveAppKey(deployments[k]) = ExpectedAppKey(deployments[k])
          /\ DeploymentEnvId(deployments[k]) = ExpectedEnvId(deployments[k])
    /\ StartsWith(filterValue, ProjectPrefix) =>
          Exactly(withFilterDeployments, deployments,
                  LAMBDA item : InSelectedProject(ExpectedEnvId(item)))
    /\ StartsWith(filterValue, EnvPrefix) =>
          Exactly(withFilterDeployments, deployments,
                  LAMBDA item : InSelectedEnv(ExpectedEnvId(item)))

\* a deployment with its own environment_id whose application is known
\* under source_app_uuid with another environment: the application's wins;
\* and a deployment without known application that falls back to its own
C12_Witness ==
    \E k \in 1..Len(deployments), l \in 1..Len(deployments) :
        /\ ~Nullish(deployments[k].source_app_uuid)
        /\ ~Nullish(deployments[k].application_id)
        /\ ~Nullish(deployments[k].environment_id)
        /\ AppsWithKey(ExpectedAppKey(deployments[k])) # {}
        /\ DeploymentEnvId(deployments[k])
              # toId(deployments[k].environment_id).s
        /\ AppsWithKey(ExpectedAppKey(deployments[l])) = {}
        /\ DeploymentEnvId(deployments[l])
              = toId(deployments[l].environment_id).s
        /\ DeploymentEnvId(deployments[l]) # <<>>

-----------------------------------------------------------------------------
(* C13: the selector status:active *)

\* what may stand between "in" and "progress": one underscore, or a run of
\* white space, or a run of hyphens
IsSeparator(x) ==
    /\ x # <<>>
    /\ \/ x = <<"_">>
       \/ \A i \in 1..Len(x) : x[i] \in WhiteSpace
       \/ \A i \in 1..Len(x) : x[i] = "-"

\* the status, whatever its case, is one of the words of the vocabulary
ExpectedActive(status) ==
    /\ ~Nullish(status)
    /\ LET lower == ToLowerCase(status.s)
       IN  \/ lower \in {<<"r", "u", "n", "n", "i", "n", "g">>, <<"q", "u", "e", "u", "e", "d">>, <<"p", "e", "n", "d", "i", "n", "g">>,
                         <<"d", "e", "p", "l", "o", "y", "i", "n", "g">>, <<"b", "u", "i", "l", "d", "i", "n", "g">>}
           \/ /\ StartsWith(lower, <<"i", "n">>)
              /\ EndsWith(lower, <<"p", "r", "o", "g", "r", "e", "s", "s">>)
              /\ Len(lower) > Len(<<"i", "n", "p", "r", "o", "g", "r", "e", "s", "s">>)
              /\ IsSeparator(SubSeq(lower, 3, Len(lower) - 8))

\* C13: status:active keeps a deployment exactly when its status, lower
\* cased and with every run of white space and every run of hyphens turned
\* into one underscore, is running, queued, pending, in_progress, deploying
\* or building; "In Progress", "in-progress" and "IN_PROGRESS" are active
\* and a missing status is not.
C13_StatusActive ==
    /\ statusActive # <<>> <=> statusRet \in ACTIVE_STATUSES
    /\ statusActive # <<>> <=> ExpectedActive(statusArg)
    /\ statusActive # <<>> => statusActive[1].status = statusArg
    /\ statusArg \in {Str(<<"I", "n", " ", "P", "r", "o", "g", "r", "e", "s", "s">>), Str(<<"i", "n", "-", "p", "r", "o", "g", "r", "e", "s", "s">>),
                      Str(<<"I", "N", "_", "P", "R", "O", "G", "R", "E", "S", "S">>)} =>
          /\ statusRet = <<"i", "n", "_", "p", "r", "o", "g", "r", "e", "s", "s">>
          /\ Len(statusActive) = 1
    /\ Nullish(statusArg) => statusActive = <<>>

C13_Witness ==
    /\ statusArg = Str(<<"I", "n", " ", "P", "r", "o", "g", "r", "e", "s", "s">>)
    /\ statusRet = <<"i", "n", "_", "p", "r", "o", "g", "r", "e", "s", "s">>
    /\ Len(statusActive) = 1

-----------------------------------------------------------------------------
(* C14: the empty search *)

BlankSearch == Trim(searchText) = <<>>

\* result holds the elements of items, newest first; elements of one
\* creation time keep the order they have in items
IsNewestFirst(result, items) ==
    /\ Len(result) = Len(items)
    /\ \E p \in Permutations(1..Len(items)) :
          /\ \A k \in 1..Len(items) : result[k] = items[p[k]]
          /\ \A k \in 1..Len(items), l \in 1..Len(items) :
                k < l =>
                  \/ CreatedTime(result[k]) > CreatedTime(result[l])
                  \/ /\ CreatedTime(result[k]) = CreatedTime(result[l])
                     /\ p[k] < p[l]

-----------------------------------------------------------------------------
(* The URL resolvers *)

\* an identifier that is missing (undefined, null) or empty
IsMissing(uuid) == uuid \in {Undefined, Null} \/ uuid = Str(<<>>)

\* x without its trailing slashes: the longest prefix not ending in a slash
WithoutTrailingSlashes(x) ==
    LET k == CHOOSE n \in 0..Len(x) :
                 /\ n = 0 \/ x[n] # "/"
                 /\ \A j \in (n + 1)..Len(x) : x[j] = "/"
    IN  SubSeq(x, 1, k)

\* {instanceUrl stripped}/project/{p}/environment/{e}/{type}/{r}
ResourceUrlTemplate(a, type) ==
    IF IsMissing(a.projectUuid) \/ IsMissing(a.environmentUuid)
          \/ IsMissing(a.resourceUuid)
    THEN Undefined
    ELSE Str(WithoutTrailingSlashes(a.instanceUrl)
                \o <<"/", "p", "r", "o", "j", "e", "c", "t", "/">> \o a.projectUuid.s
                \o <<"/", "e", "n", "v", "i", "r", "o", "n", "m", "e", "n", "t", "/">> \o a.environmentUuid.s
                \o <<"/">> \o type \o <<"/">> \o a.resourceUuid.s)

\* C15: every copy of resolveResourceUrl returns undefined when one of
\* projectUuid, environmentUuid, resourceUuid is missing or empty, and
\* otherwise exactly the instance URL without its trailing slashes followed
\* by /project/{projectUuid}/environment/{environmentUuid}/{type}/{resourceUuid},
\* for the types application, service and database.
C15_ResourceUrl ==
    /\ urlArgs.type \in {TypeApplication, TypeService, TypeDatabase}
    /\ urlRets.resources = ResourceUrlTemplate(urlArgs, urlArgs.type)
    /\ urlRets.environmentResources = ResourceUrlTemplate(urlArgs, urlArgs.type)
    /\ urlRets.applications = ResourceUrlTemplate(urlArgs, <<"a", "p", "p", "l", "i", "c", "a", "t", "i", "o", "n">>)
    /\ urlRets.services = ResourceUrlTemplate(urlArgs, <<"s", "e", "r", "v", "i", "c", "e">>)
    /\ urlRets.databases = ResourceUrlTemplate(urlArgs, <<"d", "a", "t", "a", "b", "a", "s", "e">>)

C15_Witness ==
    /\ urlArgs.instanceUrl = <<"h", "t", "t", "p", "s", ":", "/", "/", "h", "/", "/">>
    /\ urlArgs.type = <<"s", "e", "r", "v", "i", "c", "e">>
    /\ urlRets.resources = Str(    <<"h", "t", "t", "p", "s", ":", "/", "/", "h", "/", "p", "r", "o", "j",
      "e", "c", "t", "/", "p", "1", "/", "e", "n", "v", "i", "r", "o", "n",
      "m", "e", "n", "t", "/", "e", "1", "/", "s", "e", "r", "v", "i", "c",
      "e", "/", "r", "1">>)
    /\ urlRets.databases = Str(    <<"h", "t", "t", "p", "s", ":", "/", "/", "h", "/", "p", "r", "o", "j",
      "e", "c", "t", "/", "p", "1", "/", "e", "n", "v", "i", "r", "o", "n",
      "m", "e", "n", "t", "/", "e", "1", "/", "d", "a", "t", "a", "b", "a",
      "s", "e", "/", "r", "1">>)

\* the path a resolver appended to the instance URL
AppendedPath(url, a) ==
    SubSeq(url.s, Len(WithoutTrailingSlashes(a.instanceUrl)) + 1, Len(url.s))

\* no segment between two slashes, or after the last one, is empty
NoEmptySegment(path) ==
    /\ path # <<>>
    /\ path[1] = "/"
    /\ path[Len(path)] # "/"
    /\ \A i \in 1..(Len(path) - 1) : ~(path[i] = "/" /\ path[i + 1] = "/")

LogsUrlOk(url, a) ==
    IF IsMissing(a.projectUuid) \/ IsMissing(a.environmentUuid)
          \/ IsMissing(a.resourceUuid)
    THEN url = Undefined
    ELSE /\ url.t = "string"
         /\ NoEmptySegment(AppendedPath(url, a))
         /\ AppendedPath(url, a) =
               <<"/", "p", "r", "o", "j", "e", "c", "t", "/">> \o a.projectUuid.s
                 \o <<"/", "e", "n", "v", "i", "r", "o", "n", "m", "e", "n", "t", "/">> \o a.environmentUuid.s
                 \o <<"/", "a", "p", "p", "l", "i", "c", "a", "t", "i", "o", "n", "/">> \o a.resourceUuid.s \o <<"/", "l", "o", "g", "s">>

DeploymentUrlOk(url, a) ==
    IF IsMissing(a.projectUuid) \/ IsMissing(a.environmentUuid)
          \/ IsMissing(a.resourceUuid) \/ IsMissing(a.deploymentUuid)
    THEN url = Undefined
    ELSE /\ url.t = "string"
         /\ NoEmptySegment(AppendedPath(url, a))
         /\ AppendedPath(url, a) =
               <<"/", "p", "r", "o", "j", "e", "c", "t", "/">> \o a.projectUuid.s
                 \o <<"/", "e", "n", "v", "i", "r", "o", "n", "m", "e", "n", "t", "/">> \o a.environmentUuid.s
                 \o <<"/", "a", "p", "p", "l", "i", "c", "a", "t", "i", "o", "n", "/">> \o a.resourceUuid.s
                 \o <<"/", "d", "e", "p", "l", "o", "y", "m", "e", "n", "t", "/">> \o a.deploymentUuid.s

\* C16: buildConsoleLogsUrl, buildCoolifyLogsUrl and buildCoolifyDeploymentUrl
\* return undefined unless the project, environment and application uuid
\* (and, for the deployment URL, the deployment uuid) are all present and
\* non-empty; a URL they return has no empty path segment.
C16_AllOrNothing ==
    /\ LogsUrlOk(urlRets.consoleLogs, urlArgs)
    /\ LogsUrlOk(urlRets.coolifyLogs, urlArgs)
    /\ DeploymentUrlOk(urlRets.deployment, urlArgs)

C16_Witness ==
    /\ urlArgs.deploymentUuid = Str(<<>>)
    /\ urlRets.deployment = Undefined
    /\ urlRets.coolifyLogs = Str(    <<"h", "t", "t", "p", "s", ":", "/", "/", "h", "/", "p", "r", "o", "j",
      "e", "c", "t", "/", "p", "1", "/", "e", "n", "v", "i", "r", "o", "n",
      "m", "e", "n", "t", "/", "e", "1", "/", "a", "p", "p", "l", "i", "c",
      "a", "t", "i", "o", "n", "/", "r", "1", "/", "l", "o", "g", "s">>)
    /\ urlRets.consoleLogs = urlRets.coolifyLogs

-----------------------------------------------------------------------------
(* The grouped list of the resources view *)

\* the entries in the order in which the sections show them
RECURSIVE FlattenGroups(_)
FlattenGroups(groups) ==
    IF groups = <<>> THEN <<>>
    ELSE FlattenGroups(Front(groups)) \o Last(groups).items

Displayed == FlattenGroups(groupedResources)

\* application < service < database < unknown
TypePrecedence(type) ==
    IF type = <<"a", "p", "p", "l", "i", "c", "a", "t", "i", "o", "n">> THEN 0
    ELSE IF type = <<"s", "e", "r", "v", "i", "c", "e">> THEN 1
    ELSE IF type = <<"d", "a", "t", "a", "b", "a", "s", "e">> THEN 2
    ELSE 3

\* a is not behind b in the order of (projectName, envName, type, name)
KeyLeq(a, b) ==
    LET project == localeCompare(a.projectName, b.projectName)
        env == localeCompare(a.envName, b.envName)
        ta == TypePrecedence(a.item.type.s)
        tb == TypePrecedence(b.item.type.s)
    IN  \/ project < 0
        \/ project = 0 /\ env < 0
        \/ project = 0 /\ env = 0 /\ ta < tb
        \/ /\ project = 0 /\ env = 0 /\ ta = tb
           /\ localeCompare(a.item.name.s, b.item.name.s) <= 0

\* C17: the grouped resource list is ordered by (projectName,
\* environmentName, type precedence application < service < database <
\* unknown, name): of two consecutive displayed entries the earlier one is
\* less than or equal to the later one in that lexicographic key order.
IsOrdered(entries) ==
    \A i \in 1..(Len(entries) - 1) : KeyLeq(entries[i], entries[i + 1])

C17_GroupedOrder == IsOrdered(Displayed)

IsReordered(entries, filtered) ==
    /\ Len(entries) >= 3
    /\ [i \in 1..Len(entries) |-> entries[i].item] # filtered
    /\ \E i \in 1..(Len(entries) - 1) :
          /\ entries[i].projectName = entries[i + 1].projectName
          /\ entries[i].envName = entries[i + 1].envName
          /\ entries[i].item.type # entries[i + 1].item.type
    /\ \E i \in 1..(Len(entries) - 1) :
          entries[i].projectName # entries[i + 1].projectName

C17_Witness == IsReordered(Displayed, filteredResources)

\* the project name the environment of an item resolves to
ProjectNameOf(item) ==
    LET envId == IF item.environmentId \in {Undefined, Null} THEN <<>>
                 ELSE item.environmentId.s
    IN  IF envId \in DOMAIN envLookup
             /\ envLookup[envId].projectName \notin {Undefined, Null}
        THEN envLookup[envId].projectName.s
        ELSE <<"U", "n", "a", "s", "s", "i", "g", "n", "e", "d">>

SortedEntries ==
    sortEntries([i \in 1..Len(filteredResources) |->
                    ResourceEntry(filteredResources[i], envLookup, envNameMap)])

\* the entries of one project name, in sorted order
EntriesOf(sorted, projectName) ==
    LET InProject(entry) == entry.projectName = projectName
    IN  SelectSeq(sorted, InProject)

\* how often x occurs in the sequence xs
Occurrences(xs, x) == Cardinality({i \in 1..Len(xs) : xs[i] = x})

\* the groups partition the sorted entries of the filtered items by
\* project name
IsPartition(groups, sorted, filtered) ==
    LET shown == [k \in 1..Len(sorted) |-> sorted[k].item]
    IN  /\ \A g, h \in 1..Len(groups) :
              groups[g].projectName = groups[h].projectName => g = h
        /\ \A g \in 1..Len(groups) :
              /\ groups[g].items # <<>>
              /\ groups[g].items = EntriesOf(sorted, groups[g].projectName)
              /\ \A k \in 1..Len(groups[g].items) :
                    ProjectNameOf(groups[g].items[k].item) =
                        groups[g].projectName
        /\ \A k \in 1..Len(sorted) :
              \E g \in 1..Len(groups) :
                  groups[g].projectName = sorted[k].projectName
        /\ Len(shown) = Len(filtered)
        /\ \A i \in 1..Len(filtered) :
              Occurrences(shown, filtered[i]) =
                  Occurrences(filtered, filtered[i])

\* C18: grouping partitions the sorted resources by projectName only: every
\* filtered resource appears in exactly one bucket, the bucket of its project
\* name; the items of a bucket keep their sorted order; a resource whose
\* environment resolves to no project is in the bucket "Unassigned".
C18_GroupedByProject ==
    IsPartition(groupedResources, SortedEntries, filteredResources)

HasBuckets(groups) ==
    /\ Len(groups) >= 2
    /\ \E g \in 1..Len(groups) :
          /\ groups[g].projectName = <<"U", "n", "a", "s", "s", "i", "g", "n", "e", "d">>
          /\ \E k \in 1..Len(groups[g].items) :
                LET item == groups[g].items[k].item
                IN  /\ item.environmentId # Undefined
                    /\ item.environmentId.s \notin DOMAIN envLookup
    /\ \E g \in 1..Len(groups) :
          /\ groups[g].projectName # <<"U", "n", "a", "s", "s", "i", "g", "n", "e", "d">>
          /\ Len(groups[g].items) >= 2

C18_Witness == HasBuckets(groupedResources)

-----------------------------------------------------------------------------
(* The primary URL of an application *)

\* the text in front of the first comma
FirstToken(x) ==
    IF \E i \in 1..Len(x) : x[i] = ","
    THEN LET i == CHOOSE i \in 1..Len(x) :
                      x[i] = "," /\ \A j \in 1..(i - 1) : x[j] # ","
         IN  SubSeq(x, 1, i - 1)
    ELSE x

Letters ==
    {LowerCaseLetters[i] : i \in 1..Len(LowerCaseLetters)}
        \cup {UpperCaseLetters[i] : i \in 1..Len(UpperCaseLetters)}

SchemeChars ==
    Letters \cup {"0", "1", "2", "3", "4", "5", "6", "7", "8", "9",
                  "+", "-", "."}

\* the token begins with a scheme: a letter, then letters, digits, "+", "-"
\* or ".", then "://"
DeclaresScheme(token) ==
    \E k \in 1..(Len(token) - 3) :
        /\ token[1] \in Letters
        /\ \A i \in 1..k : token[i] \in SchemeChars
        /\ SubSeq(token, k + 1, k + 3) = <<":", "/", "/">>

ExpectedPrimaryUrl(fqdn) ==
    IF fqdn \in {Undefined, Null} THEN Undefined
    ELSE LET token == Trim(FirstToken(fqdn.s))
         IN  IF token = <<>> THEN Undefined
             ELSE IF DeclaresScheme(token) THEN Str(token)
             ELSE Str(<<"h", "t", "t", "p", "s", ":", "/", "/">> \o token)

-----------------------------------------------------------------------------
(* The resource items *)

\* the name of the item of a record, by the type of its collection
ItemName(record, unnamed) ==
    IF record.name \in {Undefined, Null} THEN Str(unnamed) ELSE record.name

\* item is the item of the record: tagged with type, named after the record
IsItemOf(item, record, type, unnamed) ==
    /\ item.type = Str(type)
    /\ item.name = ItemName(record, unnamed)

\* items holds one item per application, then one per service, then one per
\* database
IsOneToOne(items, apps, svcs, dbs) ==
    /\ Len(items) = Len(apps) + Len(svcs) + Len(dbs)
    /\ \A i \in 1..Len(apps) :
          IsItemOf(items[i], apps[i], <<"a", "p", "p", "l", "i", "c", "a", "t", "i", "o", "n">>,
                   <<"U", "n", "n", "a", "m", "e", "d", " ", "A", "p", "p", "l", "i", "c", "a", "t", "i", "o", "n">>)
    /\ \A i \in 1..Len(svcs) :
          IsItemOf(items[Len(apps) + i], svcs[i], <<"s", "e", "r", "v", "i", "c", "e">>,
                   <<"U", "n", "n", "a", "m", "e", "d", " ", "S", "e", "r", "v", "i", "c", "e">>)
    /\ \A i \in 1..Len(dbs) :
          IsItemOf(items[Len(apps) + Len(svcs) + i], dbs[i], <<"d", "a", "t", "a", "b", "a", "s", "e">>,
                   <<"U", "n", "n", "a", "m", "e", "d", " ", "D", "a", "t", "a", "b", "a", "s", "e">>)

\* C20: buildResources returns exactly one item per input application,
\* service and database (as many items as the three inputs have records,
\* the applications first, then the services, then the databases), each with
\* the type of its collection, and a record without a name is named
\* "Unnamed Application", "Unnamed Service" or "Unnamed Database".
C20_OneToOne == IsOneToOne(resources, applications, services, databases)

IsUnnamed(records) == \E i \in 1..Len(records) : records[i].name = Undefined

C20_Witness ==
    /\ IsUnnamed(applications) /\ IsUnnamed(services) /\ IsUnnamed(databases)
    /\ Len(applications) = 2 /\ Len(services) = 2
    /\ Len(resources) = 5
    /\ resources[3].name = Str(<<"U", "n", "n", "a", "m", "e", "d", " ", "S", "e", "r", "v", "i", "c", "e">>)
    /\ resources[4].name = Str(<<"m", "q">>)
    /\ resources[5].name = Str(<<"U", "n", "n", "a", "m", "e", "d", " ", "D", "a", "t", "a", "b", "a", "s", "e">>)

-----------------------------------------------------------------------------
(* The selector "all" *)

\* C21: with the selector "all" every applyFilter variant returns the items
\* it was given unchanged, the same elements in the same order, whatever the
\* lookup maps hold.
C21_AllIsIdentity ==
    filterValue = <<"a", "l", "l">> =>
        /\ withFilterResources = resources
        /\ withFilterApplications = applications
        /\ withFilterServices = services
        /\ withFilterDatabases = databases
        /\ withFilterDeployments = deployments

C21_Witness ==
    /\ filterValue = <<"a", "l", "l">>
    /\ DOMAIN envToProjectMap # {}
    /\ DOMAIN envNameToIds # {}
    /\ Len(withFilterResources) = 5
    /\ Len(withFilterApplications) = 2
    /\ Len(withFilterServices) = 2
    /\ Len(withFilterDatabases) = 1
    /\ Len(withFilterDeployments) = 2

-----------------------------------------------------------------------------
(* The project name of an environment *)

\* the name of the owning project, or "Unnamed Project"
OwnerName(project) ==
    IF project.name \in {Undefined, Null} THEN Str(<<"U", "n", "n", "a", "m", "e", "d", " ", "P", "r", "o", "j", "e", "c", "t">>)
    ELSE project.name

\* envs holds the environments of the projects in owners, project by project,
\* each with the name of its owner and never without one
CarryOwnerName(envs, owners) ==
    /\ Len(envs) = CountEnvs(owners)
    /\ \A k \in 1..Len(envs) : envs[k].projectName \notin {Undefined, Null}
    /\ \A i \in 1..Len(owners) :
          \A j \in 1..Len(owners[i].environments) :
              envs[CountEnvs(SubSeq(owners, 1, i - 1)) + j].projectName
                  = OwnerName(owners[i])

\* the projects whose environments are requested
Requested(ps) == SelectSeq(ps, LAMBDA project : Truthy(project.uuid))

\* C22: every environment produced by flattenEnvironments and every
\* environment returned by fetchProjectEnvironments carries a non-null
\* projectName: the name of the owning project, or "Unnamed Project" when
\* the project has no name.
C22_ProjectNameSet ==
    /\ CarryOwnerName(environments, projects)
    /\ CarryOwnerName(fetchProjectEnvironments(projects), Requested(projects))

C22_Witness ==
    /\ Len(projects) = 2
    /\ Len(environments) = 2
    /\ \E i \in 1..Len(projects) : projects[i].name = Undefined
    /\ \E k \in 1..2 : environments[k].projectName = Str(<<"U", "n", "n", "a", "m", "e", "d", " ", "P", "r", "o", "j", "e", "c", "t">>)
    /\ \E k \in 1..2 : environments[k].projectName = Str(<<"A">>)
    /\ fetchProjectEnvironments(projects)[1].projectName
          = environments[1].projectName

-----------------------------------------------------------------------------
(* The deployments fetch *)

IsPrefix(xs, ys) == Len(xs) <= Len(ys) /\ xs = SubSeq(ys, 1, Len(xs))

\* C23: the deployments fetch serializes its per-application sub-requests:
\* at any time at most one sub-request is in flight, the sub-request of the
\* next application is sent only after the response of the previous one was
\* received, and the sub-requests follow the order of the filtered
\* application uuid list.
C23_Serialized ==
    /\ Len(inFlight) <= 1
    /\ IsPrefix(requestLog, fetchUuids)
    /\ IsPrefix(responseLog, requestLog)
    /\ Len(requestLog) <= Len(responseLog) + 1

C23_Witness ==
    /\ fetchPc = "application"
    /\ Len(fetchUuids) = 3
    /\ inFlight = <<ApplicationRequest(<<"a", "3">>)>>
    /\ requestLog = <<<<"a", "2">>, <<"a", "1">>, <<"a", "3">>>>
    /\ responseLog = <<<<"a", "2">>, <<"a", "1">>>>

\* C24: the list one fetch produces never holds more than 200 records, on
\* the per-application path, on the global /deployments path and on the
\* fallback path, whatever number of rows the responses carry.
C24_Capped == Len(fetchedDeployments) <= 200

-----------------------------------------------------------------------------
(* Partial failure of the environment fan-out *)

\* the projects of the call whose request succeeded
Succeeded ==
    {i \in 1..Len(fanProjects) :
        /\ Truthy(fanProjects[i].uuid)
        /\ i \notin fanPending
        /\ i \notin fanFailed}

\* C25: when the environments request of one project fails while the
\* requests of other projects succeed, fetchProjectEnvironments still yields
\* the environments of the projects that succeeded.
C25_PartialFailureTolerated ==
    (fanPending = {} /\ fanFailed # {} /\ Succeeded # {})
        => \A i \in Succeeded :
              \A k \in 1..Len(ProjectRequest(fanProjects[i])) :
                  \E n \in 1..Len(fanEnvironments) :
                      fanEnvironments[n] = ProjectRequest(fanProjects[i])[k]

-----------------------------------------------------------------------------
(* Arrival order of the fetched collections *)

\* the derived state is the one computed from the collections as they are
\* now, whatever arrived before and in whatever order
IsRebuilt(envs, items, shown) ==
    /\ envToProjectMap = buildEnvToProjectMap(envs)
    /\ envNameMap = buildEnvNameMap(envs)
    /\ envLookup = buildEnvLookup(envs)
    /\ envNameToIds = buildEnvNameToIdsMap(envs)
    /\ resources = items
    /\ withFilterResources =
          applyFilter_Resources(items, filterValue,
                                buildEnvToProjectMap(envs),
                                buildEnvNameToIdsMap(envs))
    /\ shown =
          searchResources(
              applyFilter_Resources(items, filterValue,
                                    buildEnvToProjectMap(envs),
                                    buildEnvNameToIdsMap(envs)),
              searchText)

\* C26: in whatever order projects, environments, applications, services
\* and databases arrive, the lookup maps and the filtered resource list are
\* those computed from the collections as they finally are: the maps are
\* rebuilt from scratch on each change and never patched.
C26_ArrivalOrder ==
    IsRebuilt(environments,
              buildResources(applications, services, databases),
              filteredResources)

C26_Witness ==
    /\ Len(environments) = 2
    /\ Len(applications) = 2 /\ Len(services) = 2 /\ Len(databases) = 1
    /\ StartsWith(filterValue, <<"p", "r", "o", "j", "e", "c", "t", ":">>)
    /\ Len(filteredResources) >= 2
    /\ Len(filteredResources) < Len(resources)

-----------------------------------------------------------------------------
(* The token gate *)

HasNoToken ==
    gatePrefs.apiToken \in {Undefined, Null}
        \/ \A i \in 1..Len(gatePrefs.apiToken.s) :
              gatePrefs.apiToken.s[i] \in WhiteSpace

\* C27: the token gate renders the wrapped command view only after the
\* token validation completed successfully; while validation is pending it
\* shows the loading view only, and after a failed validation (a rejected
\* /projects request, or a missing or blank token, for which no HTTP request
\* is issued) the invalid-token view only.
C27_TokenGate ==
    /\ gateView = "children" => gatePc = "valid"
    /\ gatePc \in {"started", "requesting"} => gateView = "loading"
    /\ gatePc = "invalid" => gateView = "invalid-token"
    /\ (gatePc # "unmounted" /\ HasNoToken) => gateRequests = <<>>
    /\ gatePc = "valid" =>
          /\ ~HasNoToken
          /\ Len(gateRequests) = 1

C27_Witness ==
    /\ gatePc = "invalid"
    /\ gateView = "invalid-token"
    /\ gatePrefs.apiToken = Str(<<" ", "t", " ">>)
    /\ gateError = Str(    <<"C", "o", "o", "l", "i", "f", "y", " ", "A", "P", "I", " ", "e", "r",
      "r", "o", "r", ":", " ", "4", "0", "1">>)
    /\ gateRequests =
          <<[url |->     <<"h", "t", "t", "p", "s", ":", "/", "/", "h", "/", "a", "p", "i", "/",
      "v", "1", "/", "p", "r", "o", "j", "e", "c", "t", "s">>,
             authorization |-> <<"B", "e", "a", "r", "e", "r", " ", "t">>]>>

-----------------------------------------------------------------------------
(* C28: in the mutation forms the parent callback and the pop happen only
   after the API request succeeded: after a failed request, or a payload
   that does not parse, neither happens, and no request is sent for such a
   payload; isSubmitting is true from the submit on and false again once
   the handler has finished *)

HandlerRuns == formPc \in {"requesting", "success-toast", "failure-toast"}

C28_SuccessEffects ==
    /\ (refreshed \/ popped) => requestSucceeded /\ formPc = "finished"
    /\ ~ReachesRequest(formProps, formPayload) =>
          formRequests = <<>> /\ ~requestSucceeded
    /\ HandlerRuns => isSubmitting
    /\ formPc = "finished" => ~isSubmitting

\* a second submit succeeded after the first had failed
C28_Witness ==
    /\ formPc = "finished"
    /\ formAttempts = 2
    /\ Len(formRequests) = 2
    /\ refreshed
    /\ popped
    /\ ~isSubmitting

-----------------------------------------------------------------------------
(* The project id of a dropdown item and the project id of the
   environments *)

\* the keys buildEnvToProjectMap files an environment under
EnvKeys(env) == {key.s : key \in {k \in {toId(env.id), toId(env.uuid)} : Truthy(k)}}

\* the item of the project carries the id that its environments are tagged
\* with and that the map stores for them
ItemMatches(project, envs) ==
    LET selected == ProjectItemId(project)
        stored == buildEnvToProjectMap(envs)
    IN  Truthy(selected) =>
          \A k \in 1..Len(ProjectRequest(project)) :
              LET env == ProjectRequest(project)[k]
              IN  /\ env.projectId = selected
                  /\ \A key \in EnvKeys(env) :
                        MapHas(stored, key) /\ stored[key] = selected.s

\* C29: the project id of a dropdown item, toId(project.id ?? project.uuid),
\* equals the projectId that fetchProjectEnvironments tags onto the
\* environments of that project and that buildEnvToProjectMap stores for
\* them, for every project with a uuid, numeric id 0 and padded ids
\* included.
C29_ItemIdIsProjectId ==
    fanStatus = "resolved" =>
        \A i \in 1..Len(fanProjects) :
            Truthy(fanProjects[i].uuid)
                => ItemMatches(fanProjects[i], fanEnvironments)

-----------------------------------------------------------------------------
(* The filter and the search only remove items *)

\* xs is ys with some of its elements left out
RECURSIVE IsSubSequence(_, _)
IsSubSequence(xs, ys) ==
    IF xs = <<>> THEN TRUE
    ELSE IF ys = <<>> THEN FALSE
    ELSE IF Head(xs) = Head(ys) THEN IsSubSequence(Tail(xs), Tail(ys))
    ELSE IsSubSequence(xs, Tail(ys))

\* C30: in the resources view the result of applyFilter followed by the
\* text search is an order-preserving sub-sequence of the items, for every
\* selector, recognized or not, and whatever the lookup maps hold: no item
\* is added, duplicated, modified or reordered.
C30_OnlyRemoves ==
    /\ IsSubSequence(withFilterResources, resources)
    /\ IsSubSequence(filteredResources, withFilterResources)
    /\ IsSubSequence(filteredResources, resources)

\* under a selector the view does not know, the search kept some items and
\* removed an item that stands before a kept one
C30_Witness ==
    /\ filterValue = FilterStatusActive
    /\ Trim(searchText) # <<>>
    /\ filteredResources # <<>>
    /\ Len(filteredResources) < Len(resources)
    /\ filteredResources[1] # resources[1]

=============================================================================
